---- MODULE Spec2Model ----
(***************************************************************************)
(* EnScript language server: the lexer, the declaration parser and the     *)
(* Analyzer (the per-URI cache of parsed Files and the queries over it).   *)
(*                                                                         *)
(* Strings are sequences of one-character strings, offsets are 0-based as  *)
(* in the source, and a JavaScript `undefined` is the empty sequence <<>>  *)
(* where the source has an optional value.                                 *)
(***************************************************************************)
EXTENDS Integers, Sequences, FiniteSets, TLC

(***************************************************************************)
(* Lexer (server/src/analysis/lexer)                                       *)
(***************************************************************************)

\* rules.ts: the closed keyword set
keywords ==
  { <<"c", "l", "a", "s", "s">>,
    <<"e", "n", "u", "m">>,
    <<"t", "y", "p", "e", "d", "e", "f">>,
    <<"u", "s", "i", "n", "g">>,
    <<"e", "x", "t", "e", "n", "d", "s">>,
    <<"a", "u", "t", "o">>,
    <<"e", "v", "e", "n", "t">>,
    <<"m", "o", "d", "d", "e", "d">>,
    <<"p", "r", "o", "t", "o">>,
    <<"n", "a", "t", "i", "v", "e">>,
    <<"o", "w", "n", "e", "d">>,
    <<"l", "o", "c", "a", "l">>,
    <<"r", "e", "f">>,
    <<"r", "e", "f", "e", "r", "e", "n", "c", "e">>,
    <<"r", "e", "t", "u", "r", "n">>,
    <<"i", "f">>,
    <<"e", "l", "s", "e">>,
    <<"f", "o", "r">>,
    <<"w", "h", "i", "l", "e">>,
    <<"b", "r", "e", "a", "k">>,
    <<"c", "o", "n", "t", "i", "n", "u", "e">>,
    <<"o", "u", "t">>,
    <<"i", "n", "o", "u", "t">>,
    <<"o", "v", "e", "r", "r", "i", "d", "e">>,
    <<"p", "r", "i", "v", "a", "t", "e">>,
    <<"p", "r", "o", "t", "e", "c", "t", "e", "d">>,
    <<"p", "u", "b", "l", "i", "c">>,
    <<"s", "t", "a", "t", "i", "c">>,
    <<"c", "o", "n", "s", "t">>,
    <<"n", "o", "t", "n", "u", "l", "l">>,
    <<"e", "x", "t", "e", "r", "n", "a", "l">>,
    <<"v", "o", "l", "a", "t", "i", "l", "e">>,
    <<"a", "u", "t", "o", "p", "t", "r">> }

\* rules.ts: the punctuation characters '(){}[];:,.<>='
punct == { "(", ")", "{", "}", "[", "]", ";", ":", ",", ".", "<", ">", "=" }

\* /\s/ restricted to the white space of the modelled alphabet
WhiteSpace == { " ", "\t", "\n", "\r", "\f" }

\* /\d/
Digits == { "0", "1", "2", "3", "4", "5", "6", "7", "8", "9" }

\* /[0-9.eE+-]/
NumberChars == Digits \cup { ".", "e", "E", "+", "-" }

\* /[_A-Za-z]/
IdentStart ==
  { "_",
    "a", "b", "c", "d", "e", "f", "g", "h", "i", "j", "k", "l", "m",
    "n", "o", "p", "q", "r", "s", "t", "u", "v", "w", "x", "y", "z",
    "A", "B", "C", "D", "E", "F", "G", "H", "I", "J", "K", "L", "M",
    "N", "O", "P", "Q", "R", "S", "T", "U", "V", "W", "X", "Y", "Z" }

\* /[_0-9A-Za-z]/
IdentChars == IdentStart \cup Digits

\* text[i] with the source's 0-based index
At(text, i) == text[i + 1]

\* String.prototype.slice(a, b): both ends are clamped to the length
slice(text, a, b) ==
  LET lo == IF a > Len(text) THEN Len(text) ELSE a
      hi == IF b > Len(text) THEN Len(text) ELSE b
  IN  SubSeq(text, lo + 1, hi)

\* token.ts: a Token; `push` records end = i at the time of the push
Token(kind, value, start, end) ==
  [kind |-> kind, value |-> value, start |-> start, end |-> end]

\* while (i < text.length && text[i] !== '\n' && text[i] !== '\r') i++
RECURSIVE scanToEol(_, _)
scanToEol(text, i) ==
  IF i < Len(text) /\ At(text, i) # "\n" /\ At(text, i) # "\r"
  THEN scanToEol(text, i + 1)
  ELSE i

\* while (i + 1 < text.length && !(text[i] === '*' && text[i+1] === '/')) i++
RECURSIVE scanBlockComment(_, _)
scanBlockComment(text, i) ==
  IF i + 1 < Len(text) /\ ~(At(text, i) = "*" /\ At(text, i + 1) = "/")
  THEN scanBlockComment(text, i + 1)
  ELSE i

\* while (i < text.length && text[i] !== '"') { if (text[i] === '\\') i += 2; else i++; }
RECURSIVE scanString(_, _)
scanString(text, i) ==
  IF i < Len(text) /\ At(text, i) # "\""
  THEN scanString(text, IF At(text, i) = "\\" THEN i + 2 ELSE i + 1)
  ELSE i

\* while (i < text.length && /class/.test(text[i])) i++
RECURSIVE scanWhile(_, _, _)
scanWhile(text, i, class) ==
  IF i < Len(text) /\ At(text, i) \in class
  THEN scanWhile(text, i + 1, class)
  ELSE i

\* one round of lex's main loop at offset i < text.length: the offset after
\* it and the tokens it pushes (none for white space)
lexStep(text, i) ==
  LET ch == At(text, i)
      start == i
      pushed(kind, j) == [i |-> j, toks |-> <<Token(kind, slice(text, start, j), start, j)>>]
  IN
  IF ch \in WhiteSpace THEN [i |-> i + 1, toks |-> <<>>]
  ELSE IF ch = "/" /\ i + 1 < Len(text) /\ At(text, i + 1) = "/"
  THEN pushed("Comment", scanToEol(text, i + 2))
  ELSE IF ch = "/" /\ i + 1 < Len(text) /\ At(text, i + 1) = "*"
  THEN pushed("Comment", scanBlockComment(text, i + 2) + 2)
  ELSE IF ch = "#" THEN pushed("Preproc", scanToEol(text, i))
  ELSE IF ch = "\"" THEN pushed("String", scanString(text, i + 1) + 1)
  ELSE IF ch \in Digits THEN pushed("Number", scanWhile(text, i, NumberChars))
  ELSE IF ch \in IdentStart
  THEN LET j == scanWhile(text, i, IdentChars)
       IN  pushed(IF slice(text, start, j) \in keywords THEN "Keyword" ELSE "Identifier", j)
  ELSE IF ch \in punct
  THEN [i |-> i + 1, toks |-> <<Token("Punctuation", <<ch>>, start, i + 1)>>]
  ELSE [i |-> i + 1, toks |-> <<Token("Operator", <<ch>>, start, i + 1)>>]

\* a faulty variant of the main loop, against which the end of the token
\* stream is tested: no EOF token once a comment or a string has run past
\* the end of the text
RECURSIVE lexFrom_eofInsideText(_, _)
lexFrom_eofInsideText(text, i) ==
  IF i < Len(text)
  THEN LET s == lexStep(text, i) IN s.toks \o lexFrom_eofInsideText(text, s.i)
  ELSE IF i = Len(text) THEN <<Token("EOF", <<>>, i, i)>> ELSE <<>>

\* while (i < text.length) { ... } push(TokenKind.EOF, '', i)
RECURSIVE lexFrom(_, _)
lexFrom(text, i) ==
  IF i < Len(text)
  THEN LET s == lexStep(text, i) IN s.toks \o lexFrom(text, s.i)
  ELSE <<Token("EOF", <<>>, i, i)>>

\* lex(text): the token sequence, ended by the EOF token
lex(text) == lexFrom(text, 0)

(***************************************************************************)
(* Documents and positions                                                 *)
(***************************************************************************)

\* TextDocument.create(uri, languageId, version, text)
TextDocument(uri, version, text) == [uri |-> uri, version |-> version, text |-> text]

\* TextDocument.getLineOffsets(): the offsets at which a line starts, a line
\* ending with "\n", "\r" or "\r\n"
lineOffsets(text) ==
  { 0 } \cup
  { k \in 1..Len(text) :
      \/ At(text, k - 1) = "\n"
      \/ At(text, k - 1) = "\r" /\ ~(k < Len(text) /\ At(text, k) = "\n") }

\* TextDocument.positionAt(offset): the offset is clamped to the text
positionAt(text, offset) ==
  LET o == IF offset > Len(text) THEN Len(text) ELSE IF offset < 0 THEN 0 ELSE offset
      before == { k \in lineOffsets(text) : k <= o }
      lineStart == CHOOSE k \in before : \A j \in before : j <= k
  IN  [line |-> Cardinality(before) - 1, character |-> o - lineStart]

\* url.fileURLToPath(uri) raises a TypeError unless the scheme is file:
isFileUri(uri) == Len(uri) >= 5 /\ SubSeq(uri, 1, 5) = <<"f", "i", "l", "e", ":">>

(***************************************************************************)
(* Parser (server/src/analysis/ast/parser.ts)                              *)
(***************************************************************************)

\* const modifiers = new Set([...])
modifiers ==
  { <<"o", "v", "e", "r", "r", "i", "d", "e">>,
    <<"p", "r", "o", "t", "o">>,
    <<"n", "a", "t", "i", "v", "e">>,
    <<"m", "o", "d", "d", "e", "d">>,
    <<"o", "w", "n", "e", "d">>,
    <<"r", "e", "f">>,
    <<"r", "e", "f", "e", "r", "e", "n", "c", "e">>,
    <<"p", "u", "b", "l", "i", "c">>,
    <<"p", "r", "i", "v", "a", "t", "e">>,
    <<"p", "r", "o", "t", "e", "c", "t", "e", "d">>,
    <<"s", "t", "a", "t", "i", "c">>,
    <<"c", "o", "n", "s", "t">>,
    <<"o", "u", "t">>,
    <<"i", "n", "o", "u", "t">>,
    <<"n", "o", "t", "n", "u", "l", "l">>,
    <<"e", "x", "t", "e", "r", "n", "a", "l">>,
    <<"v", "o", "l", "a", "t", "i", "l", "e">>,
    <<"l", "o", "c", "a", "l">>,
    <<"a", "u", "t", "o", "p", "t", "r">>,
    <<"e", "v", "e", "n", "t">> }

\* isModifier(t)
isModifier(t) == t.kind = "Keyword" /\ t.value \in modifiers

\* toks[pos] when pos is past the last token
Undefined == [kind |-> "undefined", value |-> <<>>, start |-> 0, end |-> 0]

\* a faulty variant of skipTrivia, against which the transparency of comments
\* is tested: the cursor stays where it is
skipTrivia_none(toks, pos) == pos

\* skipTrivia(): the cursor moved past Comment and Preproc tokens
RECURSIVE skipTrivia(_, _)
skipTrivia(toks, pos) ==
  IF pos < Len(toks) /\ toks[pos + 1].kind \in { "Comment", "Preproc" }
  THEN skipTrivia(toks, pos + 1)
  ELSE pos

\* peek(): the token under the cursor after skipTrivia()
peek(toks, pos) ==
  LET p == skipTrivia(toks, pos)
  IN  IF p < Len(toks) THEN toks[p + 1] ELSE Undefined

\* next(): returns peek() and leaves the cursor one past it
nextPos(toks, pos) == skipTrivia(toks, pos) + 1

\* eof()
eof(toks, pos) == peek(toks, pos).kind = "EOF"

\* the outcome of a parsing function: either err = <<e>> (an exception e was
\* raised) or err = <<>>, the cursor is at pos and val is the returned value
Return(pos, val) == [err |-> <<>>, pos |-> pos, val |-> val]
Throw(e) == [err |-> <<e>>, pos |-> 0, val |-> <<>>]
Threw(r) == r.err # <<>>

\* `const v = e; K`: the statements K that follow with v bound to the value
Let(v, K(_)) == K(v)

\* `const r = f(); K`: an exception raised by f() ends the function, else the
\* statements K that follow run with r bound to what f() returned
Then(r, K(_)) == IF Threw(r) THEN r ELSE K(r)

\* an access to a property of undefined
TypeError == [name |-> "TypeError", uri |-> <<>>, line |-> 0, column |-> 0,
              want |-> <<>>, got |-> <<>>]

\* new ParseError(uri, line, column, message): the constructor itself calls
\* url.fileURLToPath(uri), which raises a TypeError for a non-file URI
ParseError(uri, line, column, want, got) ==
  IF isFileUri(uri)
  THEN [name |-> "ParseError", uri |-> uri, line |-> line, column |-> column,
        want |-> want, got |-> got]
  ELSE TypeError

\* throwErr(t, want): the exception raised (t.start of an undefined t is a
\* TypeError)
throwErr(doc, t, want) ==
  IF t.kind = "undefined" THEN TypeError
  ELSE LET p == positionAt(doc.text, t.start)
       IN  ParseError(doc.uri, p.line + 1, p.character + 1, want, t.value)

\* expect(val): if (peek().value !== val) throwErr(peek(), `'${val}'`); return next();
expect(doc, toks, pos, val) ==
  LET t == peek(toks, pos)
  IN  IF t.value # val THEN Throw(throwErr(doc, t, <<"'">> \o val \o <<"'">>))
      ELSE Return(nextPos(toks, pos), t)

\* readTypeLike()
readTypeLike(doc, toks, pos) ==
  LET t == peek(toks, pos)
  IN  IF t.kind = "Identifier" THEN Return(nextPos(toks, pos), t)
      ELSE Throw(throwErr(doc, t, <<"t", "y", "p", "e", " ", "i", "d", "e", "n", "t", "i", "f", "i", "e", "r">>))

\* expectIdentifier(): an identifier, or `~` Identifier (a destructor name)
expectIdentifier(doc, toks, pos) ==
  LET t == peek(toks, pos)
      p1 == nextPos(toks, pos)
      id == peek(toks, p1)
  IN  IF t.kind = "Operator" /\ t.value = <<"~">> /\ id.kind = "Identifier"
      THEN Return(nextPos(toks, p1),
                  Token("Identifier", <<"~">> \o id.value, t.start, id.end))
      ELSE IF t.kind # "Identifier" THEN Throw(throwErr(doc, t, <<"i", "d", "e", "n", "t", "i", "f", "i", "e", "r">>))
      ELSE Return(p1, t)

\* while (isModifier(peek())) mods.push(next().value)
RECURSIVE readModifiers(_, _, _)
readModifiers(toks, pos, mods) ==
  IF isModifier(peek(toks, pos))
  THEN readModifiers(toks, nextPos(toks, pos), Append(mods, peek(toks, pos).value))
  ELSE Return(pos, mods)

\* parseInt(value) of a Number token: its leading decimal digits
RECURSIVE parseInt(_, _, _)
parseInt(value, i, acc) ==
  IF i <= Len(value) /\ value[i] \in Digits
  THEN parseInt(value, i + 1,
                10 * acc + (CHOOSE d \in 0..9 :
                              value[i] = <<"0", "1", "2", "3", "4", "5", "6", "7", "8", "9">>[d + 1]))
  ELSE acc

\* one entry of TypeNode.arrayDims: a number, a symbolic name or undefined
DimNumber(n) == [dim |-> "number", num |-> n, name |-> <<>>]
DimName(s) == [dim |-> "string", num |-> 0, name |-> s]
DimUndefined == [dim |-> "undefined", num |-> 0, name |-> <<>>]

\* a faulty variant of parseArrayDims, against which the order of the
\* dimensions is tested: each dimension is put before the ones already read
RECURSIVE parseArrayDims_newestFirst(_, _, _, _)
parseArrayDims_newestFirst(doc, toks, pos, typeNode) ==
  IF peek(toks, pos).value # <<"[">> THEN Return(pos, typeNode)
  ELSE
    Let(nextPos(toks, pos), LAMBDA p1 :
    Let(peek(toks, p1), LAMBDA t :
    Then(expect(doc, toks,
                IF t.kind \in { "Number", "Identifier" } THEN nextPos(toks, p1) ELSE p1,
                <<"]">>), LAMBDA endTok :
      parseArrayDims_newestFirst(doc, toks, endTok.pos,
        [typeNode EXCEPT
           !.arrayDims = <<IF t.kind = "Number" THEN DimNumber(parseInt(t.value, 1, 0))
                           ELSE IF t.kind = "Identifier" THEN DimName(t.value)
                           ELSE DimUndefined>> \o @,
           !.end = positionAt(doc.text, endTok.val.end)]))))

\* parseArrayDims(doc, typeNode): one entry per `[ size? ]`, typeNode.end
\* moved to the end of each `]`
RECURSIVE parseArrayDims(_, _, _, _)
parseArrayDims(doc, toks, pos, typeNode) ==
  IF peek(toks, pos).value # <<"[">> THEN Return(pos, typeNode)
  ELSE
    Let(nextPos(toks, pos), LAMBDA p1 :
    Let(peek(toks, p1), LAMBDA t :
    Then(expect(doc, toks,
                IF t.kind \in { "Number", "Identifier" } THEN nextPos(toks, p1) ELSE p1,
                <<"]">>), LAMBDA endTok :
      parseArrayDims(doc, toks, endTok.pos,
        [typeNode EXCEPT
           !.arrayDims = Append(@, IF t.kind = "Number" THEN DimNumber(parseInt(t.value, 1, 0))
                                   ELSE IF t.kind = "Identifier" THEN DimName(t.value)
                                   ELSE DimUndefined),
           !.end = positionAt(doc.text, endTok.val.end)]))))

\* parseType(doc): modifiers, the type identifier, `<` generic arguments `>`
\* and array dimensions. genericArgs is <<>> when the type is not generic
\* and <<args>> when it is.
RECURSIVE parseType(_, _, _)
RECURSIVE parseGenericArgs(_, _, _, _)
parseGenericArgs(doc, toks, pos, args) ==
  IF peek(toks, pos).value # <<">">> /\ ~eof(toks, pos)
  THEN Then(parseType(doc, toks, pos), LAMBDA a :
         parseGenericArgs(doc, toks,
           IF peek(toks, a.pos).value = <<",">> THEN nextPos(toks, a.pos) ELSE a.pos,
           Append(args, a.val)))
  ELSE Return(pos, args)

parseType(doc, toks, pos) ==
  Let(readModifiers(toks, pos, <<>>), LAMBDA mods :
  Then(readTypeLike(doc, toks, mods.pos), LAMBDA startTok :
  Then(IF peek(toks, startTok.pos).value = <<"<">>
       THEN Then(parseGenericArgs(doc, toks, nextPos(toks, startTok.pos), <<>>), LAMBDA args :
            Then(expect(doc, toks, args.pos, <<">">>), LAMBDA endTok :
              Return(endTok.pos, [genericArgs |-> <<args.val>>, end |-> endTok.val.end])))
       ELSE Return(startTok.pos, [genericArgs |-> <<>>, end |-> startTok.val.end]),
       LAMBDA generic :
    parseArrayDims(doc, toks, generic.pos,
      [kind |-> "Type", uri |-> doc.uri,
       start |-> positionAt(doc.text, startTok.val.start),
       end |-> positionAt(doc.text, generic.val.end),
       identifier |-> startTok.val.value,
       genericArgs |-> generic.val.genericArgs,
       arrayDims |-> <<>>,
       modifiers |-> mods.val]))))

\* parseTypeAndName(doc): a type, a name and the dimensions written after
\* the name, refused when the type already has dimensions
parseTypeAndName(doc, toks, pos) ==
  Then(parseType(doc, toks, pos), LAMBDA typeNode :
  Then(expectIdentifier(doc, toks, typeNode.pos), LAMBDA nameTok :
    IF peek(toks, nameTok.pos).value = <<"[">>
    THEN IF typeNode.val.arrayDims # <<>>
         THEN Throw(throwErr(doc, peek(toks, nameTok.pos), <<"n", "o", "t", " ", "a", "n", "o", "t", "h", "e", "r", " ", "[">>))
         ELSE Then(parseArrayDims(doc, toks, nameTok.pos, typeNode.val), LAMBDA dims :
                Return(dims.pos, [type |-> dims.val, name |-> nameTok.val]))
    ELSE Return(nameTok.pos, [type |-> typeNode.val, name |-> nameTok.val])))
\* expectAnnotation(): `[` Identifier ( `(` args `)` )? `]`, the arguments
\* being the String and Number literals between the parentheses. The loop
\* `while (peek().value !== ')')` has no end-of-input test: once next() has
\* consumed the EOF token, peek() is undefined and peek().value raises.
RECURSIVE annotationArgs(_, _, _, _)
annotationArgs(doc, toks, pos, args) ==
  LET t == peek(toks, pos)
  IN
  IF t.kind = "undefined" THEN Throw(TypeError)
  ELSE IF t.value = <<")">> THEN Return(pos, args)
  ELSE
    LET p1 == nextPos(toks, pos)
        args1 == IF t.kind \in { "String", "Number" } THEN Append(args, t.value) ELSE args
        t1 == peek(toks, p1)
    IN  IF t1.kind = "undefined" THEN Throw(TypeError)
        ELSE annotationArgs(doc, toks,
               IF t1.value = <<",">> THEN nextPos(toks, p1) ELSE p1, args1)

expectAnnotation(doc, toks, pos) ==
  Then(expect(doc, toks, pos, <<"[">>), LAMBDA startTok :
  Then(expectIdentifier(doc, toks, startTok.pos), LAMBDA name :
  Then(IF peek(toks, name.pos).value = <<"(">>
       THEN Then(annotationArgs(doc, toks, nextPos(toks, name.pos), <<name.val.value>>),
                 LAMBDA args :
            Then(expect(doc, toks, args.pos, <<")">>), LAMBDA close :
              Return(close.pos, args.val)))
       ELSE Return(name.pos, <<name.val.value>>),
       LAMBDA args :
  Then(expect(doc, toks, args.pos, <<"]">>), LAMBDA endTok :
    Return(endTok.pos, args.val)))))

\* while (peek().value === '[') annotations.push(expectAnnotation())
RECURSIVE readAnnotations(_, _, _, _)
readAnnotations(doc, toks, pos, annotations) ==
  IF peek(toks, pos).value = <<"[">>
  THEN Then(expectAnnotation(doc, toks, pos), LAMBDA ano :
         readAnnotations(doc, toks, ano.pos, Append(annotations, ano.val)))
  ELSE Return(pos, annotations)

\* class generic parameters: while (peek().value !== '>' && !eof())
\*   { expect('Class'); genericVars.push(expectIdentifier().value); if (peek().value === ',') next(); }
RECURSIVE classGenericVars(_, _, _, _)
classGenericVars(doc, toks, pos, genericVars) ==
  IF peek(toks, pos).value # <<">">> /\ ~eof(toks, pos)
  THEN Then(expect(doc, toks, pos, <<"C", "l", "a", "s", "s">>), LAMBDA kw :
       Then(expectIdentifier(doc, toks, kw.pos), LAMBDA id :
         classGenericVars(doc, toks,
           IF peek(toks, id.pos).value = <<",">> THEN nextPos(toks, id.pos) ELSE id.pos,
           Append(genericVars, id.val.value))))
  ELSE Return(pos, genericVars)

\* an enumerator of an EnumDecl: a declaration node named by the identifier
EnumMemberDecl(doc, tok) ==
  [kind |-> "EnumMemberDecl", uri |-> doc.uri, name |-> tok.value,
   nameStart |-> positionAt(doc.text, tok.start),
   nameEnd |-> positionAt(doc.text, tok.end),
   annotations |-> <<>>, modifiers |-> <<>>,
   start |-> positionAt(doc.text, tok.start),
   end |-> positionAt(doc.text, tok.end)]

\* a faulty variant of the enum body loop, against which the choice of the
\* enumerators is tested: every token of the body is taken as an enumerator
RECURSIVE enumerators_everyToken(_, _, _, _)
enumerators_everyToken(doc, toks, pos, members) ==
  IF peek(toks, pos).value # <<"}">> /\ ~eof(toks, pos)
  THEN enumerators_everyToken(doc, toks, nextPos(toks, pos),
         Append(members, EnumMemberDecl(doc, peek(toks, pos))))
  ELSE Return(pos, members)

\* enum body: while (peek().value !== '}' && !eof())
\*   { if (peek().kind === Identifier) enumerators.push(next()); else next(); }
RECURSIVE enumerators(_, _, _, _)
enumerators(doc, toks, pos, members) ==
  IF peek(toks, pos).value # <<"}">> /\ ~eof(toks, pos)
  THEN enumerators(doc, toks, nextPos(toks, pos),
         IF peek(toks, pos).kind = "Identifier"
         THEN Append(members, EnumMemberDecl(doc, peek(toks, pos)))
         ELSE members)
  ELSE Return(pos, members)

\* a faulty variant of the body skipping, against which the counting of the
\* braces is tested: the body ends at the first closing brace
RECURSIVE skipBody_firstBrace(_, _, _)
skipBody_firstBrace(toks, pos, depth) ==
  IF depth > 0 /\ ~eof(toks, pos)
  THEN skipBody_firstBrace(toks, nextPos(toks, pos),
         IF peek(toks, pos).value = <<"}">> THEN 0 ELSE depth)
  ELSE pos

\* function body: next() until the brace depth is back to 0 or the input ends
RECURSIVE skipBody(_, _, _)
skipBody(toks, pos, depth) ==
  IF depth > 0 /\ ~eof(toks, pos)
  THEN LET t == peek(toks, pos)
       IN  skipBody(toks, nextPos(toks, pos),
             IF t.value = <<"{">> THEN depth + 1
             ELSE IF t.value = <<"}">> THEN depth - 1
             ELSE depth)
  ELSE pos

OpenBrackets == { <<"(">>, <<"[">>, <<"{">>, <<"<">> }
CloseBrackets == { <<")">>, <<"]">>, <<"}">>, <<">">> }

\* initializer: while (!eof() && depth > 0) { count the brackets; next(); }
RECURSIVE skipBrackets(_, _, _)
skipBrackets(toks, pos, depth) ==
  IF ~eof(toks, pos) /\ depth > 0
  THEN LET val == peek(toks, pos).value
       IN  skipBrackets(toks, nextPos(toks, pos),
             IF val \in OpenBrackets THEN depth + 1
             ELSE IF val \in CloseBrackets THEN depth - 1
             ELSE depth)
  ELSE pos

\* value initialization: the tokens after `=` up to `;` (inline: up to `,`
\* or `)`), a bracketed run skipped by depth, anything that is no literal,
\* name, `.`, `+`, `|` or `-` Number refused
RECURSIVE skipInitializer(_, _, _, _)
skipInitializer(doc, toks, pos, inline) ==
  Let(peek(toks, pos), LAMBDA curTok :
    IF (inline /\ curTok.value # <<",">> /\ curTok.value # <<")">>)
       \/ (~inline /\ curTok.value # <<";">>)
    THEN
      Let(nextPos(toks, pos), LAMBDA p1 :
        IF curTok.value \notin OpenBrackets
           /\ ~(curTok.value = <<"-">> /\ peek(toks, p1).kind = "Number")
           /\ curTok.kind \notin { "Keyword", "Identifier", "Number", "String" }
           /\ curTok.value \notin { <<".">>, <<"+">>, <<"|">> }
        THEN Throw(throwErr(doc, curTok, <<"i", "n", "i", "t", "i", "a", "l", "i", "z", "a", "t", "i", "o", "n", " ", "e", "x", "p", "r", "e", "s", "s", "i", "o", "n">>))
        ELSE skipInitializer(doc, toks,
               IF curTok.value \in OpenBrackets THEN skipBrackets(toks, p1, 1)
               ELSE IF curTok.value = <<"-">> /\ peek(toks, p1).kind = "Number"
               THEN nextPos(toks, p1)
               ELSE p1,
               inline))
    ELSE Return(pos, <<>>))
\* parseDecl(doc, depth, inline): one declaration at the cursor. The depth
\* argument of the source is passed along and never read.
RECURSIVE parseDecl(_, _, _, _)

\* a faulty variant of the class body loop, against which the order of the
\* members is tested: each member is put before the ones already read
RECURSIVE classMembers_newestFirst(_, _, _, _)
classMembers_newestFirst(doc, toks, pos, members) ==
  IF peek(toks, pos).value # <<"}">> /\ ~eof(toks, pos)
  THEN IF peek(toks, pos).value = <<";">>
       THEN classMembers_newestFirst(doc, toks, nextPos(toks, pos), members)
       ELSE Then(parseDecl(doc, toks, pos, FALSE), LAMBDA m :
              classMembers_newestFirst(doc, toks, m.pos, <<m.val>> \o members))
  ELSE Return(pos, members)

\* class body: while (peek().value !== '}' && !eof())
\*   { if (peek().value === ';') { next(); continue; } members.push(parseDecl(doc, depth + 1)); }
RECURSIVE classMembers(_, _, _, _)
classMembers(doc, toks, pos, members) ==
  IF peek(toks, pos).value # <<"}">> /\ ~eof(toks, pos)
  THEN IF peek(toks, pos).value = <<";">>
       THEN classMembers(doc, toks, nextPos(toks, pos), members)
       ELSE Then(parseDecl(doc, toks, pos, FALSE), LAMBDA m :
              classMembers(doc, toks, m.pos, Append(members, m.val)))
  ELSE Return(pos, members)

\* expectVarDecl(doc, inline)
expectVarDecl(doc, toks, pos, inline) ==
  Then(parseDecl(doc, toks, pos, inline), LAMBDA decl :
    IF decl.val.kind # "VarDecl"
    THEN Throw(throwErr(doc, peek(toks, decl.pos), <<"v", "a", "r", "i", "a", "b", "l", "e", " ", "d", "e", "c", "l", "a", "r", "a", "t", "i", "o", "n">>))
    ELSE decl)

\* while (!eof() && peek().value !== ')' && peek().value !== ',') next()
RECURSIVE skipDefaultValue(_, _)
skipDefaultValue(toks, pos) ==
  IF ~eof(toks, pos) /\ peek(toks, pos).value # <<")">> /\ peek(toks, pos).value # <<",">>
  THEN skipDefaultValue(toks, nextPos(toks, pos))
  ELSE pos

\* fastParamScan(doc): `(` the parameters as inline variable declarations `)`
RECURSIVE paramList(_, _, _, _)
paramList(doc, toks, pos, list) ==
  IF ~eof(toks, pos) /\ peek(toks, pos).value # <<")">>
  THEN Then(expectVarDecl(doc, toks, pos, TRUE), LAMBDA varDecl :
       Let(skipDefaultValue(toks, varDecl.pos), LAMBDA p1 :
         paramList(doc, toks,
           IF peek(toks, p1).value = <<",">> THEN nextPos(toks, p1) ELSE p1,
           Append(list, varDecl.val))))
  ELSE Return(pos, list)

fastParamScan(doc, toks, pos) ==
  Then(expect(doc, toks, pos, <<"(">>), LAMBDA open :
  Then(paramList(doc, toks, open.pos, <<>>), LAMBDA list :
  Then(expect(doc, toks, list.pos, <<")">>), LAMBDA close :
    Return(close.pos, list.val))))

\* a faulty variant of the class branch, against which the containment of
\* the members is tested: the class ends at its opening brace
parseClassDecl_endAtBrace(doc, toks, pos, annotations, mods) ==
  Then(expectIdentifier(doc, toks, nextPos(toks, pos)), LAMBDA nameTok :
  Then(IF peek(toks, nameTok.pos).value = <<"<">>
       THEN Then(classGenericVars(doc, toks, nextPos(toks, nameTok.pos), <<>>), LAMBDA vars :
            Then(expect(doc, toks, vars.pos, <<">">>), LAMBDA gt :
              Return(gt.pos, <<vars.val>>)))
       ELSE Return(nameTok.pos, <<>>),
       LAMBDA generic :
  Then(IF peek(toks, generic.pos).value \in { <<":">>, <<"e", "x", "t", "e", "n", "d", "s">> }
       THEN Then(parseType(doc, toks, nextPos(toks, generic.pos)), LAMBDA ty :
              Return(ty.pos, <<ty.val>>))
       ELSE Return(generic.pos, <<>>),
       LAMBDA base :
  Then(expect(doc, toks, base.pos, <<"{">>), LAMBDA open :
  Then(classMembers(doc, toks, open.pos, <<>>), LAMBDA members :
  Then(expect(doc, toks, members.pos, <<"}">>), LAMBDA close :
    Return(close.pos,
      [kind |-> "ClassDecl", uri |-> doc.uri, name |-> nameTok.val.value,
       nameStart |-> positionAt(doc.text, nameTok.val.start),
       nameEnd |-> positionAt(doc.text, nameTok.val.end),
       base |-> base.val,
       annotations |-> annotations, modifiers |-> mods,
       members |-> members.val,
       start |-> positionAt(doc.text, peek(toks, pos).start),
       end |-> positionAt(doc.text, open.val.end)])))))))

\* parseDecl, `class`: the node's start is the `class` token and its end is
\* the end of the token that follows the closing brace
parseClassDecl(doc, toks, pos, annotations, mods) ==
  Then(expectIdentifier(doc, toks, nextPos(toks, pos)), LAMBDA nameTok :
  Then(IF peek(toks, nameTok.pos).value = <<"<">>
       THEN Then(classGenericVars(doc, toks, nextPos(toks, nameTok.pos), <<>>), LAMBDA vars :
            Then(expect(doc, toks, vars.pos, <<">">>), LAMBDA gt :
              Return(gt.pos, <<vars.val>>)))
       ELSE Return(nameTok.pos, <<>>),
       LAMBDA generic :
  Then(IF peek(toks, generic.pos).value \in { <<":">>, <<"e", "x", "t", "e", "n", "d", "s">> }
       THEN Then(parseType(doc, toks, nextPos(toks, generic.pos)), LAMBDA ty :
              Return(ty.pos, <<ty.val>>))
       ELSE Return(generic.pos, <<>>),
       LAMBDA base :
  Then(expect(doc, toks, base.pos, <<"{">>), LAMBDA open :
  Then(classMembers(doc, toks, open.pos, <<>>), LAMBDA members :
  Then(expect(doc, toks, members.pos, <<"}">>), LAMBDA close :
    Return(close.pos,
      [kind |-> "ClassDecl", uri |-> doc.uri, name |-> nameTok.val.value,
       nameStart |-> positionAt(doc.text, nameTok.val.start),
       nameEnd |-> positionAt(doc.text, nameTok.val.end),
       base |-> base.val,
       annotations |-> annotations, modifiers |-> mods,
       members |-> members.val,
       start |-> positionAt(doc.text, peek(toks, pos).start),
       end |-> positionAt(doc.text, peek(toks, close.pos).end)])))))))

\* parseDecl, `enum`
parseEnumDecl(doc, toks, pos, annotations, mods) ==
  Then(expectIdentifier(doc, toks, nextPos(toks, pos)), LAMBDA nameTok :
  Then(IF peek(toks, nameTok.pos).value \in { <<":">>, <<"e", "x", "t", "e", "n", "d", "s">> }
       THEN Then(expectIdentifier(doc, toks, nextPos(toks, nameTok.pos)), LAMBDA id :
              Return(id.pos, <<id.val.value>>))
       ELSE Return(nameTok.pos, <<>>),
       LAMBDA base :
  Then(expect(doc, toks, base.pos, <<"{">>), LAMBDA open :
  Then(enumerators(doc, toks, open.pos, <<>>), LAMBDA members :
  Then(expect(doc, toks, members.pos, <<"}">>), LAMBDA close :
    Return(close.pos,
      [kind |-> "EnumDecl", uri |-> doc.uri, name |-> nameTok.val.value,
       nameStart |-> positionAt(doc.text, nameTok.val.start),
       nameEnd |-> positionAt(doc.text, nameTok.val.end),
       base |-> base.val,
       members |-> members.val,
       annotations |-> annotations, modifiers |-> mods,
       start |-> positionAt(doc.text, peek(toks, pos).start),
       end |-> positionAt(doc.text, peek(toks, close.pos).end)]))))))

\* a faulty variant of the typedef branch, against which the order of the
\* positions is tested: the end is the end of the `typedef` keyword
parseTypedef_endOfKeyword(doc, toks, pos, annotations, mods) ==
  Then(parseType(doc, toks, nextPos(toks, pos)), LAMBDA oldType :
  Then(expectIdentifier(doc, toks, oldType.pos), LAMBDA nameTok :
    Return(nameTok.pos,
      [kind |-> "Typedef", uri |-> doc.uri, oldType |-> oldType.val,
       name |-> nameTok.val.value,
       annotations |-> annotations, modifiers |-> mods,
       nameStart |-> positionAt(doc.text, nameTok.val.start),
       nameEnd |-> positionAt(doc.text, nameTok.val.end),
       start |-> positionAt(doc.text, peek(toks, pos).start),
       end |-> positionAt(doc.text, peek(toks, pos).end)])))

\* parseDecl, `typedef`
parseTypedef(doc, toks, pos, annotations, mods) ==
  Then(parseType(doc, toks, nextPos(toks, pos)), LAMBDA oldType :
  Then(expectIdentifier(doc, toks, oldType.pos), LAMBDA nameTok :
    Return(nameTok.pos,
      [kind |-> "Typedef", uri |-> doc.uri, oldType |-> oldType.val,
       name |-> nameTok.val.value,
       annotations |-> annotations, modifiers |-> mods,
       nameStart |-> positionAt(doc.text, nameTok.val.start),
       nameEnd |-> positionAt(doc.text, nameTok.val.end),
       start |-> positionAt(doc.text, peek(toks, pos).start),
       end |-> positionAt(doc.text, peek(toks, nameTok.pos).end)])))

\* parseDecl, a function: the parameters, the body skipped
parseFunctionDecl(doc, toks, pos, annotations, mods, tn) ==
  Then(fastParamScan(doc, toks, pos), LAMBDA params :
  Let(IF peek(toks, params.pos).value = <<"{">>
      THEN skipBody(toks, nextPos(toks, params.pos), 1)
      ELSE params.pos,
      LAMBDA p1 :
    Return(p1,
      [kind |-> "FunctionDecl", uri |-> doc.uri, name |-> tn.name.value,
       nameStart |-> positionAt(doc.text, tn.name.start),
       nameEnd |-> positionAt(doc.text, tn.name.end),
       returnType |-> tn.type,
       parameters |-> params.val,
       locals |-> <<>>,
       annotations |-> annotations, modifiers |-> mods,
       start |-> tn.type.start,
       end |-> positionAt(doc.text, peek(toks, p1).end)])))

\* parseDecl, a variable: an `= initializer` skipped
parseVarDecl(doc, toks, pos, annotations, mods, tn, inline) ==
  Then(IF peek(toks, pos).value = <<"=">>
       THEN skipInitializer(doc, toks, nextPos(toks, pos), inline)
       ELSE Return(pos, <<>>),
       LAMBDA init :
    Return(init.pos,
      [kind |-> "VarDecl", uri |-> doc.uri, name |-> tn.name.value,
       nameStart |-> positionAt(doc.text, tn.name.start),
       nameEnd |-> positionAt(doc.text, tn.name.end),
       type |-> tn.type,
       annotations |-> annotations, modifiers |-> mods,
       start |-> tn.type.start,
       end |-> positionAt(doc.text, peek(toks, init.pos).end)]))

\* parseDecl, function or variable: a type and a name, then `(` makes it a
\* function and anything else a variable
parseFunctionOrVariable(doc, toks, pos, annotations, mods, inline) ==
  Then(parseTypeAndName(doc, toks, pos), LAMBDA tn :
    IF peek(toks, tn.pos).value = <<"(">>
    THEN parseFunctionDecl(doc, toks, tn.pos, annotations, mods, tn.val)
    ELSE parseVarDecl(doc, toks, tn.pos, annotations, mods, tn.val, inline))

parseDecl(doc, toks, pos, inline) ==
  Then(readAnnotations(doc, toks, pos, <<>>), LAMBDA annotations :
  Let(readModifiers(toks, annotations.pos, <<>>), LAMBDA mods :
  Let(peek(toks, mods.pos).value, LAMBDA t :
    IF t = <<"c", "l", "a", "s", "s">>
    THEN parseClassDecl(doc, toks, mods.pos, annotations.val, mods.val)
    ELSE IF t = <<"e", "n", "u", "m">>
    THEN parseEnumDecl(doc, toks, mods.pos, annotations.val, mods.val)
    ELSE IF t = <<"t", "y", "p", "e", "d", "e", "f">>
    THEN parseTypedef(doc, toks, mods.pos, annotations.val, mods.val)
    ELSE parseFunctionOrVariable(doc, toks, mods.pos, annotations.val, mods.val, inline))))

\* a faulty variant of parse's main loop, against which the skipping of
\* semicolons is tested: a `;` between declarations is parsed as a declaration
RECURSIVE parseBody_semicolonIsDecl(_, _, _, _)
parseBody_semicolonIsDecl(doc, toks, pos, body) ==
  IF ~eof(toks, pos)
  THEN Then(parseDecl(doc, toks, pos, FALSE), LAMBDA node :
         parseBody_semicolonIsDecl(doc, toks, node.pos, Append(body, node.val)))
  ELSE Return(pos, body)

\* parse's main loop: while (!eof()) { if (peek().value === ';') { next(); continue; }
\*   file.body.push(parseDecl(doc, 0)); }
RECURSIVE parseBody(_, _, _, _)
parseBody(doc, toks, pos, body) ==
  IF ~eof(toks, pos)
  THEN IF peek(toks, pos).value = <<";">>
       THEN parseBody(doc, toks, nextPos(toks, pos), body)
       ELSE Then(parseDecl(doc, toks, pos, FALSE), LAMBDA node :
              parseBody(doc, toks, node.pos, Append(body, node.val)))
  ELSE Return(pos, body)

\* a File
File(body, version) == [body |-> body, version |-> version]

\* parse(doc): err = <<e>> when the parse raises e, else val is the File
parse(doc) ==
  Then(parseBody(doc, lex(doc.text), 0, <<>>), LAMBDA body :
    Return(body.pos, File(body.val, doc.version)))
(***************************************************************************)
(* URIs (server/src/util/uri.ts)                                           *)
(***************************************************************************)

\* the offset of the first ":" of a URI (every modelled URI has a scheme)
schemeEnd(uri) == CHOOSE i \in 0..(Len(uri) - 1) :
                    At(uri, i) = ":" /\ \A j \in 0..(i - 1) : At(uri, j) # ":"

\* URI.parse: percent-decoding of a component, for the escape %3A of ":"
RECURSIVE percentDecode(_)
percentDecode(s) ==
  IF s = <<>> THEN <<>>
  ELSE IF Len(s) >= 3 /\ s[1] = "%" /\ s[2] = "3" /\ s[3] \in { "A", "a" }
  THEN <<":">> \o percentDecode(SubSeq(s, 4, Len(s)))
  ELSE <<s[1]>> \o percentDecode(Tail(s))

\* URI.toString: the encoding of a path, ":" written as %3A
RECURSIVE encodePath(_)
encodePath(s) ==
  IF s = <<>> THEN <<>>
  ELSE (IF s[1] = ":" THEN <<"%", "3", "A">> ELSE <<s[1]>>) \o encodePath(Tail(s))

UpperCase == <<"A", "B", "C", "D", "E", "F", "G", "H", "I", "J", "K", "L", "M",
               "N", "O", "P", "Q", "R", "S", "T", "U", "V", "W", "X", "Y", "Z">>
LowerCase == <<"a", "b", "c", "d", "e", "f", "g", "h", "i", "j", "k", "l", "m",
               "n", "o", "p", "q", "r", "s", "t", "u", "v", "w", "x", "y", "z">>
toLowerCase(ch) ==
  IF \E i \in 1..26 : UpperCase[i] = ch
  THEN LowerCase[CHOOSE i \in 1..26 : UpperCase[i] = ch]
  ELSE ch

\* URI.toString: a Windows drive letter at the head of a path is lower-cased
lowerDrive(path) ==
  IF Len(path) >= 3 /\ path[1] = "/" /\ path[3] = ":"
  THEN <<"/", toLowerCase(path[2])>> \o SubSeq(path, 3, Len(path))
  ELSE path

\* normalizeUri(uri) = URI.parse(uri).toString(), for a URI made of a scheme,
\* an optional empty authority (//) and a path
normalizeUri(uri) ==
  LET e == schemeEnd(uri)
      scheme == SubSeq(uri, 1, e)
      rest == SubSeq(uri, e + 2, Len(uri))
      hasAuthority == Len(rest) >= 2 /\ rest[1] = "/" /\ rest[2] = "/"
      path == percentDecode(IF hasAuthority THEN SubSeq(rest, 3, Len(rest)) ELSE rest)
  IN  scheme \o <<":">> \o (IF hasAuthority THEN <<"/", "/">> ELSE <<>>)
        \o encodePath(lowerDrive(path))

(***************************************************************************)
(* Analyzer (the latest project/graph.ts)                                  *)
(***************************************************************************)

\* const windowSize = 64
windowSize == 64

\* TextDocument.offsetAt(position)
offsetAt(text, position) ==
  LET starts == lineOffsets(text)
      lines == Cardinality(starts)
      startOf(l) == CHOOSE k \in starts : Cardinality({ j \in starts : j < k }) = l
      lineOffset == startOf(position.line)
      nextLineOffset == IF position.line + 1 < lines THEN startOf(position.line + 1)
                        ELSE Len(text)
      o == lineOffset + position.character
  IN  IF position.line >= lines THEN Len(text)
      ELSE IF position.line < 0 THEN 0
      ELSE IF o > nextLineOffset THEN nextLineOffset
      ELSE IF o < lineOffset THEN lineOffset
      ELSE o

\* getTokenAtPosition(text, offset): the first token of the re-lexed window
\* whose span, ends included, holds the offset; <<>> for null
getTokenAtPosition(text, offset) ==
  Let(IF offset - windowSize > 0 THEN offset - windowSize ELSE 0, LAMBDA start :
  Let(IF offset + windowSize < Len(text) THEN offset + windowSize ELSE Len(text), LAMBDA end :
  Let(lex(slice(text, start, end)), LAMBDA tokens :
  Let({ i \in 1..Len(tokens) :
          offset >= start + tokens[i].start /\ offset <= start + tokens[i].end }, LAMBDA hits :
    IF hits = {} THEN <<>>
    ELSE Let(tokens[CHOOSE i \in hits : \A j \in hits : i <= j], LAMBDA t :
           <<[t EXCEPT !.start = start + t.start, !.end = start + t.end]>>)))))

\* the grave accent of a markdown fence, a character no TLA+ string can hold
Backtick == "U+0060"

\* Array.prototype.join(sep)
RECURSIVE join(_, _)
join(strs, sep) ==
  IF strs = <<>> THEN <<>>
  ELSE IF Len(strs) = 1 THEN strs[1]
  ELSE strs[1] \o sep \o join(Tail(strs), sep)

\* modifiers.length ? modifiers.join(' ') + ' ' : ''
modifierPrefix(mods) == IF Len(mods) # 0 THEN join(mods, <<" ">>) \o <<" ">> ELSE <<>>

\* formatDeclaration(node)
formatDeclaration(node) ==
  LET param(p) == modifierPrefix(p.modifiers) \o p.type.identifier \o <<" ">> \o p.name
      fmt ==
        CASE node.kind = "FunctionDecl" ->
               <<modifierPrefix(node.modifiers) \o node.returnType.identifier \o <<" ">>
                 \o node.name \o <<"(">>
                 \o join([i \in 1..Len(node.parameters) |-> param(node.parameters[i])],
                         <<",", " ">>)
                 \o <<")">> >>
          [] node.kind = "VarDecl" ->
               <<modifierPrefix(node.modifiers) \o node.type.identifier \o <<" ">> \o node.name>>
          [] node.kind = "ClassDecl" ->
               <<modifierPrefix(node.modifiers) \o <<"c", "l", "a", "s", "s", " ">> \o node.name
                 \o (IF node.base # <<>> /\ node.base[1].identifier # <<>>
                     THEN <<" ", ":", " ">> \o node.base[1].identifier ELSE <<>>) >>
          [] node.kind = "EnumDecl" ->
               <<modifierPrefix(node.modifiers) \o <<"e", "n", "u", "m", " ">> \o node.name>>
          [] node.kind = "EnumMemberDecl" -> <<node.name>>
          [] node.kind = "Typedef" ->
               <<<<"t", "y", "p", "e", "d", "e", "f", " ">> \o node.oldType.identifier \o <<" ">> \o node.name>>
          [] OTHER -> <<>>
  IN  IF fmt # <<>> /\ fmt[1] # <<>>
      THEN <<Backtick, Backtick, Backtick, "e", "n", "s", "c", "r", "i", "p", "t", "\n">> \o fmt[1] \o <<"\n", Backtick, Backtick, Backtick>>
      ELSE <<"(", "U", "n", "k", "n", "o", "w", "n", " ">> \o <<node.kind>> \o <<")", " ">> \o node.name

(***************************************************************************)
(* The language server's symbol index as a state machine                   *)
(***************************************************************************)

\* bounds of the model
MaxVersion == 2
MaxCharacter == 4

\* two spellings of one file URI, and a URI that is not a file URI
uriDrive == <<"f", "i", "l", "e", ":", "/", "/", "/", "C", ":", "/", "a">>
uriEncoded == <<"f", "i", "l", "e", ":", "/", "/", "/", "c", "%", "3", "A", "/", "a">>
uriUntitled == <<"u", "n", "t", "i", "t", "l", "e", "d", ":", "u">>
Uris == { uriDrive, uriEncoded, uriUntitled }

\* a class with a nested typedef and a nested class
textClass == <<"c", "l", "a", "s", "s", " ", "F", "o", "o", "{", "t", "y", "p", "e", "d", "e", "f", " ", "i", "n", "t", " ", "T", ";", "c", "l", "a", "s", "s", " ", "D", "{", "i", "n", "t", " ", "F", "o", "o", ";", "}", "}">>
\* a variable, a function, a typedef and an enum at the top level
textMixed == <<"F", "o", "o", " ", "x", ";", "v", "o", "i", "d", " ", "F", "o", "o", "(", ")", "{", "}", "t", "y", "p", "e", "d", "e", "f", " ", "i", "n", "t", " ", "T", ";", "e", "n", "u", "m", " ", "E", "{", "F", "o", "o", "}">>
\* a class body that is never closed: the parser raises
textBroken == <<"c", "l", "a", "s", "s", " ", "F", "o", "o", "{">>
Texts == { textClass, textMixed, textBroken }

Versions == 1..MaxVersion
Docs == { TextDocument(u, v, t) : u \in Uris, v \in Versions, t \in Texts }

\* the documents and positions of the position queries, which read the text
\* of the document and nothing else of it
QueryDocs == { TextDocument(uriDrive, 1, t) : t \in { textClass, textMixed } }
Positions == { [line |-> 0, character |-> c] : c \in 0..MaxCharacter }

\* the queries of workspace/symbol
Queries == { <<>>, <<"o">>, <<"f", "o", "o">> }

\* normalizeUri(uri) for the URIs of the model, computed once
normalized == [uri \in Uris |-> normalizeUri(uri)]

\* parse(doc) for the documents of the model, computed once
parsed == [doc \in Docs |-> parse(doc)]

\* resolveDefinitions' first lines for the queries of the model, computed once:
\* const offset = doc.offsetAt(_pos);
\* const token = getTokenAtPosition(doc.getText(), offset);
tokenAt == [doc \in QueryDocs |->
             [pos \in Positions |->
                getTokenAtPosition(doc.text, offsetAt(doc.text, pos))]]

\* toSymbolKind(kind): the SymbolKind of a declaration
toSymbolKind(kind) ==
  CASE kind = "ClassDecl" -> "Class"
    [] kind = "EnumDecl" -> "Enum"
    [] kind = "FunctionDecl" -> "Function"
    [] kind = "VarDecl" -> "Variable"
    [] kind = "Typedef" -> "TypeParameter"
    [] kind = "EnumMemberDecl" -> "EnumMember"
    [] OTHER -> "Variable"

\* docCache: Map<string, File>, a sequence of entries in insertion order
mapGet(cache, key) ==
  LET hits == { i \in 1..Len(cache) : cache[i].key = key }
  IN  IF hits = {} THEN <<>> ELSE <<cache[CHOOSE i \in hits : TRUE].file>>

\* a faulty variant of Map.set, against which the persistence of the entries
\* is tested: a cache of one slot, the new entry replaces all the others
mapSet_oneSlot(cache, key, file) == <<[key |-> key, file |-> file]>>

\* Map.set keeps the place of a key that is already there
mapSet(cache, key, file) ==
  IF \E i \in 1..Len(cache) : cache[i].key = key
  THEN [i \in 1..Len(cache) |->
          IF cache[i].key = key THEN [key |-> key, file |-> file] ELSE cache[i]]
  ELSE Append(cache, [key |-> key, file |-> file])

\* what ensure hands back: the File returned (or the exception that escapes),
\* the cache it leaves, and the branch it took
Ensured(err, file, cache, branch) ==
  [err |-> err, file |-> file, cache |-> cache, branch |-> branch]

\* faulty variants of ensure, against which the properties of the cache are
\* tested: the cache keyed by the URI as the client spelled it
ensure_rawKey(cache, doc) ==
  Let(mapGet(cache, doc.uri), LAMBDA cachedFile :
    IF cachedFile # <<>> /\ cachedFile[1].version = doc.version
    THEN Ensured(<<>>, cachedFile[1], cache, "hit")
    ELSE Let(parsed[doc], LAMBDA ast :
           IF ~Threw(ast)
           THEN Ensured(<<>>, ast.val, mapSet(cache, doc.uri, ast.val), "parsed")
           ELSE Ensured(<<>>, File(<<>>, 0), cache, "failed")))

\* a failed parse drops what the cache held
ensure_failureEvicts(cache, doc) ==
  Let(normalized[doc.uri], LAMBDA key :
  Let(mapGet(cache, key), LAMBDA cachedFile :
    IF cachedFile # <<>> /\ cachedFile[1].version = doc.version
    THEN Ensured(<<>>, cachedFile[1], cache, "hit")
    ELSE Let(parsed[doc], LAMBDA ast :
           IF ~Threw(ast)
           THEN Ensured(<<>>, ast.val, mapSet(cache, key, ast.val), "parsed")
           ELSE Ensured(<<>>, File(<<>>, 0), <<>>, "failed"))))

\* the handler catches a ParseError and lets any other error through
ensure_catchParseErrorOnly(cache, doc) ==
  Let(normalized[doc.uri], LAMBDA key :
  Let(mapGet(cache, key), LAMBDA cachedFile :
    IF cachedFile # <<>> /\ cachedFile[1].version = doc.version
    THEN Ensured(<<>>, cachedFile[1], cache, "hit")
    ELSE Let(parsed[doc], LAMBDA ast :
           IF ~Threw(ast)
           THEN Ensured(<<>>, ast.val, mapSet(cache, key, ast.val), "parsed")
           ELSE IF ast.err[1].name # "ParseError"
           THEN Ensured(ast.err, File(<<>>, 0), cache, "failed")
           ELSE Ensured(<<>>, File(<<>>, 0), cache, "failed"))))

\* a faulty variant of ensure, against which the cache hit is tested: the
\* document is parsed whatever the cache holds
ensure_alwaysParses(cache, doc) ==
  Let(normalized[doc.uri], LAMBDA key :
  Let(parsed[doc], LAMBDA ast :
    IF ~Threw(ast)
    THEN Ensured(<<>>, ast.val, mapSet(cache, key, ast.val), "parsed")
    ELSE IF ast.err[1].name = "ParseError" /\ ~isFileUri(ast.err[1].uri)
    THEN Ensured(<<TypeError>>, File(<<>>, 0), cache, "failed")
    ELSE Ensured(<<>>, File(<<>>, 0), cache, "failed")))

\* Analyzer.ensure(doc)
ensure(cache, doc) ==
  Let(doc.version, LAMBDA currVersion :
  Let(normalized[doc.uri], LAMBDA key :
  Let(mapGet(cache, key), LAMBDA cachedFile :
    IF cachedFile # <<>> /\ cachedFile[1].version = currVersion
    THEN Ensured(<<>>, cachedFile[1], cache, "hit")
    ELSE Let(parsed[doc], LAMBDA ast :
           IF ~Threw(ast)
           THEN Ensured(<<>>, ast.val, mapSet(cache, key, ast.val), "parsed")
           ELSE IF ast.err[1].name = "ParseError" /\ ~isFileUri(ast.err[1].uri)
           THEN Ensured(<<TypeError>>, File(<<>>, 0), cache, "failed")
           ELSE Ensured(<<>>, File(<<>>, 0), cache, "failed")))))

\* Analyzer.getCompletions(doc, _pos): ast.body.filter(n => n.name)
getCompletions(cache, doc) ==
  Let(ensure(cache, doc), LAMBDA e :
    e @@ [out |-> IF e.err # <<>> THEN <<>>
                  ELSE SelectSeq(e.file.body, LAMBDA n : n.name # <<>>)])

\* the concatenation of a sequence of sequences
RECURSIVE flat(_)
flat(seqs) == IF seqs = <<>> THEN <<>> ELSE seqs[1] \o flat(Tail(seqs))

\* the matches one top-level node contributes to resolveDefinitions
nodeMatches(node, name) ==
  (IF node.name = name THEN <<node>> ELSE <<>>)
  \o (IF node.kind = "ClassDecl"
      THEN SelectSeq(node.members, LAMBDA member : member.name = name) ELSE <<>>)
  \o (IF node.kind = "EnumDecl"
      THEN SelectSeq(node.members, LAMBDA member : member.name = name) ELSE <<>>)

\* a faulty variant of resolveDefinitions: one canonical symbol, the first match
resolveDefinitions_firstOnly(cache, doc, pos) ==
  Let(tokenAt[doc][pos], LAMBDA token :
    IF token = <<>> \/ token[1].kind # "Identifier" THEN <<>>
    ELSE Let(flat([i \in 1..Len(cache) |->
                     flat([j \in 1..Len(cache[i].file.body) |->
                             nodeMatches(cache[i].file.body[j], token[1].value)])]),
             LAMBDA all : IF all = <<>> THEN <<>> ELSE <<all[1]>>))

\* Analyzer.resolveDefinitions(doc, _pos)
resolveDefinitions(cache, doc, pos) ==
  Let(tokenAt[doc][pos], LAMBDA token :
    IF token = <<>> \/ token[1].kind # "Identifier" THEN <<>>
    ELSE Let(token[1].value, LAMBDA name :
           flat([i \in 1..Len(cache) |->
                   flat([j \in 1..Len(cache[i].file.body) |->
                           nodeMatches(cache[i].file.body[j], name)])])))

\* a faulty variant of getHover: the blocks joined by a single line break
getHover_singleLineBreak(cache, doc, pos) ==
  Let(resolveDefinitions(cache, doc, pos), LAMBDA symbols :
    IF Len(symbols) = 0 THEN <<>>
    ELSE <<join([i \in 1..Len(symbols) |-> formatDeclaration(symbols[i])], <<"\n">>)>>)

\* Analyzer.getHover(doc, _pos): <<>> for null, else <<markdown>>
getHover(cache, doc, pos) ==
  Let(resolveDefinitions(cache, doc, pos), LAMBDA symbols :
    IF Len(symbols) = 0 THEN <<>>
    ELSE <<join([i \in 1..Len(symbols) |-> formatDeclaration(symbols[i])],
                <<"\n", "\n">>)>>)

\* Analyzer.findReferences(doc, _pos, _inc)
findReferences(doc, pos) == <<>>

\* Analyzer.prepareRename(doc, _pos)
prepareRename(doc, pos) == <<>>

\* Analyzer.renameSymbol(doc, _pos, _newName)
renameSymbol(doc, pos) == <<>>

\* String.prototype.includes(query)
includes(name, query) ==
  \E i \in 0..(Len(name) - Len(query)) : SubSeq(name, i + 1, i + Len(query)) = query

\* a SymbolInformation; containerName is <<>> when undefined
SymbolInformation(uri, node, kind, containerName) ==
  [name |-> node.name, kind |-> kind, containerName |-> containerName,
   location |-> [uri |-> uri,
                 range |-> [start |-> node.nameStart, end |-> node.nameEnd]]]

\* Analyzer.getInnerWorkspaceSymbols(uri, query, members, containerName)
RECURSIVE getInnerWorkspaceSymbols(_, _, _, _)
getInnerWorkspaceSymbols(uri, query, members, containerName) ==
  IF members = <<>> THEN <<>>
  ELSE LET node == members[1]
       IN  (IF includes(node.name, query)
            THEN <<SymbolInformation(uri, node, toSymbolKind(node.kind), containerName)>>
            ELSE <<>>)
           \o (IF node.kind = "ClassDecl"
               THEN getInnerWorkspaceSymbols(uri, query, node.members, <<node.name>>)
               ELSE <<>>)
           \o (IF node.kind = "EnumDecl"
               THEN LET matching == SelectSeq(node.members,
                                         LAMBDA enumerator : includes(enumerator.name, query))
                    IN  [i \in 1..Len(matching) |->
                           SymbolInformation(uri, matching[i], "EnumMember",
                                             <<node.name>>)]
               ELSE <<>>)
           \o getInnerWorkspaceSymbols(uri, query, Tail(members), containerName)

\* a faulty variant of getWorkspaceSymbols: the walk stops at the top level
getWorkspaceSymbols_topLevelOnly(cache, query) ==
  flat([i \in 1..Len(cache) |->
          LET top == SelectSeq(cache[i].file.body, LAMBDA node : includes(node.name, query))
          IN  [j \in 1..Len(top) |->
                 SymbolInformation(cache[i].key, top[j], toSymbolKind(top[j].kind), <<>>)]])

\* Analyzer.getWorkspaceSymbols(query)
getWorkspaceSymbols(cache, query) ==
  flat([i \in 1..Len(cache) |->
          getInnerWorkspaceSymbols(cache[i].key, query, cache[i].file.body, <<>>)])

\* doc.positionAt(node.start): node.start is a Position, not an offset, so the
\* offset is NaN: the binary search ends on the last line and the character
\* is NaN
positionAtNaN(text) ==
  [line |-> Cardinality(lineOffsets(text)) - 1, character |-> "NaN"]

\* the diagnostic runDiagnostics pushes for a Typedef
Diagnostic(doc, node) ==
  [message |-> <<"T", "y", "p", "e", "d", "e", "f", " ", "'">> \o node.name \o <<"'", " ", "i", "s", " ", "n", "e", "v", "e", "r", " ", "u", "s", "e", "d">>,
   range |-> [start |-> positionAtNaN(doc.text), end |-> positionAtNaN(doc.text)],
   severity |-> 2]

\* Analyzer.runDiagnostics(doc)
runDiagnostics(cache, doc) ==
  Let(ensure(cache, doc), LAMBDA e :
  Let(SelectSeq(e.file.body, LAMBDA node : node.kind = "Typedef"), LAMBDA typedefs :
    e @@ [out |-> IF e.err # <<>> THEN <<>>
                  ELSE [i \in 1..Len(typedefs) |-> Diagnostic(doc, typedefs[i])]]))

\* Analyzer.dumpDiagnostics(): for each cached uri, the nodes of its body
dumpDiagnostics(cache) ==
  [i \in 1..Len(cache) |-> [uri |-> cache[i].key, items |-> cache[i].file.body]]

NoDoc == TextDocument(<<>>, 0, <<>>)
NoPosition == [line |-> 0, character |-> 0]
NoFile == File(<<>>, 0)

VARIABLES docCache, lastOp

vars == <<docCache, lastOp>>

\* the record of the last request: what was asked, the branch ensure took and
\* the File it returned, the result, and the exception that escaped if any
Call(op, doc, pos, query, branch, file, out, err) ==
  [op |-> op, doc |-> doc, pos |-> pos, query |-> query, branch |-> branch,
   file |-> file, out |-> out, err |-> err]

Init ==
  /\ docCache = <<>>
  /\ lastOp = Call("init", NoDoc, NoPosition, <<>>, "none", NoFile, <<>>, <<>>)

\* textDocument/completion
GetCompletions(doc) ==
  \E r \in { getCompletions(docCache, doc) } :
      /\ docCache' = r.cache
      /\ lastOp' = Call("getCompletions", doc, NoPosition, <<>>, r.branch, r.file,
                        r.out, r.err)

\* the diagnostics run on open and on change
RunDiagnostics(doc) ==
  \E r \in { runDiagnostics(docCache, doc) } :
      /\ docCache' = r.cache
      /\ lastOp' = Call("runDiagnostics", doc, NoPosition, <<>>, r.branch, r.file,
                        r.out, r.err)

\* a faulty variant of the definition request, against which the frame of the
\* queries is tested: the request goes through ensure like getCompletions
ResolveDefinitions_ensures(doc, pos) ==
  \E r \in { ensure(docCache, doc) } :
      /\ docCache' = r.cache
      /\ lastOp' = Call("resolveDefinitions", doc, pos, <<>>, "none", NoFile,
                        resolveDefinitions(r.cache, doc, pos), <<>>)

\* textDocument/definition
ResolveDefinitions(doc, pos) ==
  /\ lastOp' = Call("resolveDefinitions", doc, pos, <<>>, "none", NoFile,
                    resolveDefinitions(docCache, doc, pos), <<>>)
  /\ UNCHANGED docCache

\* textDocument/hover
GetHover(doc, pos) ==
  /\ lastOp' = Call("getHover", doc, pos, <<>>, "none", NoFile,
                    getHover(docCache, doc, pos), <<>>)
  /\ UNCHANGED docCache

\* workspace/symbol
GetWorkspaceSymbols(query) ==
  /\ lastOp' = Call("getWorkspaceSymbols", NoDoc, NoPosition, query, "none", NoFile,
                    getWorkspaceSymbols(docCache, query), <<>>)
  /\ UNCHANGED docCache

\* textDocument/references
FindReferences ==
  /\ lastOp' = Call("findReferences", NoDoc, NoPosition, <<>>, "none", NoFile,
                    findReferences(NoDoc, NoPosition), <<>>)
  /\ UNCHANGED docCache

\* textDocument/prepareRename
PrepareRename ==
  /\ lastOp' = Call("prepareRename", NoDoc, NoPosition, <<>>, "none", NoFile,
                    prepareRename(NoDoc, NoPosition), <<>>)
  /\ UNCHANGED docCache

\* textDocument/rename
RenameSymbol ==
  /\ lastOp' = Call("renameSymbol", NoDoc, NoPosition, <<>>, "none", NoFile,
                    renameSymbol(NoDoc, NoPosition), <<>>)
  /\ UNCHANGED docCache

\* enscript/dumpDiagnostics
DumpDiagnostics ==
  /\ lastOp' = Call("dumpDiagnostics", NoDoc, NoPosition, <<>>, "none", NoFile,
                    dumpDiagnostics(docCache), <<>>)
  /\ UNCHANGED docCache

Next ==
  \/ \E doc \in Docs : GetCompletions(doc)
  \/ \E doc \in Docs : RunDiagnostics(doc)
  \/ \E doc \in QueryDocs, pos \in Positions : ResolveDefinitions(doc, pos)
  \/ \E doc \in QueryDocs, pos \in Positions : GetHover(doc, pos)
  \/ \E query \in Queries : GetWorkspaceSymbols(query)
  \/ FindReferences
  \/ PrepareRename
  \/ RenameSymbol
  \/ DumpDiagnostics

Spec == Init /\ [][Next]_vars

(***************************************************************************)
(* Properties                                                              *)
(***************************************************************************)

\* the requests that go through ensure
EnsureOps == { "getCompletions", "runDiagnostics" }

\* the indices of the cache entries stored under a key
entriesAt(cache, key) == { i \in 1..Len(cache) : cache[i].key = key }

\* C1: ensure(doc) returns the cached File, without parsing and without
\* touching the cache, when the cache holds under the normalized URI of doc a
\* File whose version is doc.version; otherwise it parses doc and, when the
\* parse succeeds, stores the new File (version = doc.version) under the
\* normalized URI, in the place of a previous File of that URI if there is
\* one, and returns it.
C1_EnsureContract ==
  [][lastOp'.op \in EnsureOps =>
       LET doc == lastOp'.doc
           key == normalized[doc.uri]
           at == entriesAt(docCache, key)
           entry == [key |-> key, file |-> lastOp'.file]
       IN  IF \E i \in at : docCache[i].file.version = doc.version
           THEN /\ lastOp'.branch = "hit"
                /\ \E i \in at : lastOp'.file = docCache[i].file
                /\ docCache' = docCache
           ELSE /\ lastOp'.branch # "hit"
                /\ ~Threw(parsed[doc]) =>
                     /\ lastOp'.branch = "parsed"
                     /\ lastOp'.file = parsed[doc].val
                     /\ lastOp'.file.version = doc.version
                     /\ docCache' = IF at = {} THEN Append(docCache, entry)
                                    ELSE [i \in 1..Len(docCache) |->
                                            IF i \in at THEN entry ELSE docCache[i]]
    ]_vars

\* C1 witness: a hit through the other spelling of the URI the File was
\* cached under
C1_Witness ==
  /\ lastOp.op \in EnsureOps
  /\ lastOp.branch = "hit"
  /\ lastOp.doc.uri = uriEncoded
  /\ lastOp.file.body # <<>>
  /\ lastOp.file.body[1].uri = uriDrive

\* C2: after a parse fails inside ensure, the cache holds for that URI the
\* empty stub {body: [], version: 0}.
C2_FailedParseStoresStub ==
  lastOp.op \in EnsureOps /\ lastOp.branch = "failed" =>
    LET cached == mapGet(docCache, normalized[lastOp.doc.uri])
    IN  cached # <<>> /\ cached[1].body = <<>> /\ cached[1].version = 0

\* C3: a parse failure for a URI inside ensure leaves the cache entry of
\* every other URI as it was before the call.
C3_FailureIsolation ==
  [][(/\ lastOp'.op \in EnsureOps
      /\ Threw(parsed[lastOp'.doc])
      /\ \A i \in entriesAt(docCache, normalized[lastOp'.doc.uri]) :
           docCache[i].file.version # lastOp'.doc.version)
     => \A i \in 1..Len(docCache) :
          docCache[i].key # normalized[lastOp'.doc.uri]
            => mapGet(docCache', docCache[i].key) = <<docCache[i].file>>
    ]_vars

\* C3 witness: a parse has failed while the cache holds the declarations of
\* another URI
C3_Witness ==
  /\ lastOp.op \in EnsureOps
  /\ lastOp.branch = "failed"
  /\ \E i \in 1..Len(docCache) :
       /\ docCache[i].key # normalized[lastOp.doc.uri]
       /\ docCache[i].file.body # <<>>

\* the workspace symbols of one URI
symbolsOfUri(cache, key) ==
  SelectSeq(getWorkspaceSymbols(cache, <<>>), LAMBDA s : s.location.uri = key)

\* C4: once a URI cached at a version is ensured again with a higher version,
\* getWorkspaceSymbols returns for that URI the declarations of the new text
\* and nothing else: no declaration of the old version is left.
C4_ReensureReplaces ==
  [][lastOp'.op \in EnsureOps =>
       LET doc == lastOp'.doc
           key == normalized[doc.uri]
           new == IF Threw(parsed[doc]) THEN <<>> ELSE parsed[doc].val.body
       IN  (\E i \in entriesAt(docCache, key) : docCache[i].file.version < doc.version)
             => symbolsOfUri(docCache', key)
                  = getInnerWorkspaceSymbols(key, <<>>, new, <<>>)
    ]_vars

\* C5: whatever the parser raises, a ParseError or another error, ensure
\* catches it: no exception escapes getCompletions or runDiagnostics, and the
\* File they are given after a failed parse has an empty body.
C5_NoErrorEscapes ==
  lastOp.op \in EnsureOps =>
    /\ lastOp.err = <<>>
    /\ (lastOp.branch # "hit" /\ Threw(parsed[lastOp.doc])) =>
         /\ lastOp.branch = "failed"
         /\ lastOp.file.body = <<>>
         /\ lastOp.out = <<>>

\* C5 witness: the parse raised an error that is no ParseError
C5_Witness ==
  /\ lastOp.op \in EnsureOps
  /\ lastOp.branch = "failed"
  /\ parsed[lastOp.doc].err[1].name = "TypeError"

\* C6: after a query that is given a document, the cache has an entry for the
\* URI of that document, whether or not the parse succeeded.
C6_QueryCreatesEntry ==
  lastOp.op \in { "getCompletions", "runDiagnostics", "resolveDefinitions", "getHover" }
    => mapGet(docCache, normalized[lastOp.doc.uri]) # <<>>

\* the declarations of a File that resolveDefinitions looks at, in source
\* order: each top-level declaration, followed by its direct members
candidatesOf(body) ==
  flat([j \in 1..Len(body) |->
          <<body[j]>> \o (IF body[j].kind \in { "ClassDecl", "EnumDecl" }
                          THEN body[j].members ELSE <<>>)])

\* position p comes before position q in a text
before(p, q) == p.line < q.line \/ (p.line = q.line /\ p.character < q.character)

\* the place of the File a declaration belongs to in the iteration of the cache
cacheIndex(cache, node) ==
  CHOOSE i \in 1..Len(cache) : cache[i].key = normalized[node.uri]

RECURSIVE declarationsOf(_, _)
declarationsOf(members, container) ==
  flat([j \in 1..Len(members) |->
          <<[node |-> members[j], container |-> container]>>
          \o (IF members[j].kind = "ClassDecl"
              THEN declarationsOf(members[j].members, <<members[j].name>>)
              ELSE IF members[j].kind = "EnumDecl"
              THEN [k \in 1..Len(members[j].members) |->
                      [node |-> members[j].members[k], container |-> <<members[j].name>>]]
              ELSE <<>>)])

\* name contains query, case-sensitively
contains(name, query) ==
  \E a, b \in 0..Len(name) :
    a <= b /\ [i \in 1..(b - a) |-> name[a + i]] = query

\* how many times x occurs in a sequence
occurrences(seq, x) == Cardinality({ i \in 1..Len(seq) : seq[i] = x })

RECURSIVE typedefsOf(_)
typedefsOf(members) ==
  flat([j \in 1..Len(members) |->
          IF members[j].kind = "Typedef" THEN <<members[j]>>
          ELSE IF members[j].kind = "ClassDecl" THEN typedefsOf(members[j].members)
          ELSE <<>>])

\* C9: runDiagnostics(doc) returns exactly one "never used" diagnostic for
\* every Typedef declaration of the document, wherever it is declared, and
\* no other diagnostic.
C9_OneDiagnosticPerTypedef ==
  lastOp.op = "runDiagnostics" =>
    LET typedefs == typedefsOf(lastOp.file.body)
    IN  /\ Len(lastOp.out) = Len(typedefs)
        /\ \A i \in 1..Len(typedefs) :
             lastOp.out[i].message = <<"T", "y", "p", "e", "d", "e", "f", " ", "'">> \o typedefs[i].name \o <<"'", " ", "i", "s", " ", "n", "e", "v", "e", "r", " ", "u", "s", "e", "d">>

\* the blocks of a hover, a blank line between one and the next
RECURSIVE blankLineSeparated(_)
blankLineSeparated(blocks) ==
  IF Len(blocks) = 1 THEN blocks[1]
  ELSE blankLineSeparated(SubSeq(blocks, 1, Len(blocks) - 1))
         \o <<"\n", "\n">> \o blocks[Len(blocks)]

\* C10: getHover returns absent exactly when resolveDefinitions returns no
\* match for the same document and position; otherwise it returns one
\* rendered block per match, in the order of resolveDefinitions, the blocks
\* joined by blank lines.
C10_HoverRendersEveryMatch ==
  lastOp.op = "getHover" =>
    LET matches == resolveDefinitions(docCache, lastOp.doc, lastOp.pos)
    IN  /\ lastOp.out = <<>> <=> matches = <<>>
        /\ matches # <<>> =>
             lastOp.out = <<blankLineSeparated([i \in 1..Len(matches) |->
                                                  formatDeclaration(matches[i])])>>

\* C10 witness: a hover over a name with several declarations
C10_Witness ==
  /\ lastOp.op = "getHover"
  /\ lastOp.out # <<>>
  /\ Len(resolveDefinitions(docCache, lastOp.doc, lastOp.pos)) >= 3


(***************************************************************************)
(* The lexer and the token lookup applied to bounded inputs                *)
(***************************************************************************)

\* bound of the lexer inputs: a text is at most MaxPieces pieces long
MaxPieces == 3

\* the pieces the texts are made of: a keyword, names, a digit, the sign and
\* exponent characters of a number, white space, the characters that open
\* and close comments, strings and preprocessor lines, and a punctuation
LexPieces ==
  { <<"c", "l", "a", "s", "s">>, <<"F", "o", "o">>, <<"_">>, <<"e">>, <<"1">>, <<"+">>,
    <<" ">>, <<"/">>, <<"*">>, <<"\"">>, <<"\\">>, <<"\n">>, <<"#">>, <<"(">> }

\* the texts of at most n pieces
RECURSIVE textsOf(_)
textsOf(n) ==
  IF n = 0 THEN { <<>> }
  ELSE textsOf(n - 1) \cup { t \o p : t \in textsOf(n - 1), p \in LexPieces }

LexTexts == textsOf(MaxPieces)

\* the record of a call of a function of the text alone
Applied(op, text, offset, out, err) ==
  [op |-> op, text |-> text, offset |-> offset, out |-> out, err |-> err]

\* the inputs: a text and an offset into it
LexerInit ==
  /\ docCache = <<>>
  /\ \E text \in LexTexts : \E offset \in 0..Len(text) :
       lastOp = Applied("input", text, offset, <<>>, <<>>)

\* lex(text)
Lex ==
  /\ lastOp.op = "input"
  /\ lastOp' = Applied("lex", lastOp.text, lastOp.offset, lex(lastOp.text), <<>>)
  /\ UNCHANGED docCache

\* getTokenAtPosition(text, offset)
GetTokenAtPosition ==
  /\ lastOp.op = "input"
  /\ lastOp' = Applied("getTokenAtPosition", lastOp.text, lastOp.offset,
                       getTokenAtPosition(lastOp.text, lastOp.offset), <<>>)
  /\ UNCHANGED docCache

LexerNext == Lex \/ GetTokenAtPosition

LexerSpec == LexerInit /\ [][LexerNext]_vars

\* C11: for every offset o with start <= o < end of an identifier of the
\* text that lies wholly inside the window [o-64, o+64), getTokenAtPosition
\* returns that identifier: kind Identifier, its full text, its absolute
\* start and end offsets.
C11_IdentifierUnderCursor ==
  lastOp.op = "getTokenAtPosition" =>
    \A i \in 1..Len(lex(lastOp.text)) :
      (/\ lex(lastOp.text)[i].kind = "Identifier"
       /\ lex(lastOp.text)[i].start <= lastOp.offset
       /\ lastOp.offset < lex(lastOp.text)[i].end
       /\ lex(lastOp.text)[i].start >= lastOp.offset - windowSize
       /\ lex(lastOp.text)[i].end <= lastOp.offset + windowSize)
      => lastOp.out = <<lex(lastOp.text)[i]>>

\* C12: lex returns on every input string, the empty string, an unterminated
\* block comment and an unterminated string literal included, and its output
\* contains exactly one EOF token, which is the last token of the sequence.
C12_OneEofLast ==
  lastOp.op = "lex" =>
    /\ lastOp.err = <<>>
    /\ Len(lastOp.out) >= 1
    /\ \A i \in 1..Len(lastOp.out) : lastOp.out[i].kind = "EOF" <=> i = Len(lastOp.out)

\* C12 witness: the text ends inside a block comment, whose token ends past
\* the end of the text
C12_Witness ==
  /\ lastOp.op = "lex"
  /\ Len(lastOp.out) >= 2
  /\ lastOp.out[Len(lastOp.out) - 1].kind = "Comment"
  /\ lastOp.out[Len(lastOp.out) - 1].end > Len(lastOp.text)

\* offset k of the text is inside a comment, a string or a preprocessor line
insideTrivia(toks, k) ==
  \E i \in 1..Len(toks) :
    /\ toks[i].kind \in { "Comment", "String", "Preproc" }
    /\ toks[i].start <= k /\ k < toks[i].end

\* the maximal runs [a, b) of identifier characters of a text that start
\* with a letter or an underscore
identifierRuns(text) ==
  { r \in (0..Len(text)) \X (0..Len(text)) :
      /\ r[1] < r[2]
      /\ \A k \in r[1]..(r[2] - 1) : At(text, k) \in IdentChars
      /\ At(text, r[1]) \in IdentStart
      /\ r[1] = 0 \/ At(text, r[1] - 1) \notin IdentChars
      /\ r[2] = Len(text) \/ At(text, r[2]) \notin IdentChars }

\* C13: a maximal run of identifier characters that starts with a letter or
\* an underscore, outside comments, strings and preprocessor lines, is
\* emitted as one token whose value is exactly that text and whose kind is
\* Keyword if the text is in the keyword set and Identifier otherwise.
C13_IdentifierRunIsOneToken ==
  lastOp.op = "lex" =>
    \A r \in identifierRuns(lastOp.text) :
      ~insideTrivia(lastOp.out, r[1]) =>
        \E i \in 1..Len(lastOp.out) :
          /\ lastOp.out[i].start = r[1]
          /\ lastOp.out[i].end = r[2]
          /\ lastOp.out[i].value = SubSeq(lastOp.text, r[1] + 1, r[2])
          /\ lastOp.out[i].kind = IF SubSeq(lastOp.text, r[1] + 1, r[2]) \in keywords
                                  THEN "Keyword" ELSE "Identifier"

\* the characters of a text that are not white space, as offsets
inkOffsets(text) == { k \in 0..(Len(text) - 1) : At(text, k) \notin WhiteSpace }

\* C29: for every input text, lex emits tokens in source order with
\* non-overlapping spans (each token starts at or after the end of the one
\* before it), every token satisfies 0 <= start <= end <= length(text) with
\* value equal to the slice text[start, end), and every character of the
\* text that is not white space lies inside exactly one token.
C29_TokensTileTheText ==
  lastOp.op = "lex" =>
    /\ \A i \in 1..Len(lastOp.out) :
         /\ 0 <= lastOp.out[i].start
         /\ lastOp.out[i].start <= lastOp.out[i].end
         /\ lastOp.out[i].end <= Len(lastOp.text)
         /\ lastOp.out[i].value = SubSeq(lastOp.text, lastOp.out[i].start + 1, lastOp.out[i].end)
         /\ i > 1 => lastOp.out[i].start >= lastOp.out[i - 1].end
    /\ \A k \in inkOffsets(lastOp.text) :
         Cardinality({ i \in 1..Len(lastOp.out) :
                        lastOp.out[i].start <= k /\ k < lastOp.out[i].end }) = 1

(***************************************************************************)
(* The parser applied to bounded documents                                 *)
(***************************************************************************)

\* the URI of the parsed documents
uriTest == <<"f", "i", "l", "e", ":", "/", "/", "/", "t", "e", "s", "t", ".", "e", "n", "s", "c", "r", "i", "p", "t">>

\* the words of a text, one space between them
words(ws) == join(ws, <<" ">>)

\* names of declarations
DeclNames == { <<"F", "o", "o">>, <<"C", "l", "a", "s", "s">>, <<"_", "x", "1">> }

\* `class Name { }`, with or without the blanks and the closing `;`
classText(name, blank, semi) ==
  <<"c", "l", "a", "s", "s", " ">> \o name \o blank \o <<"{">> \o blank \o <<"}">> \o semi

EmptyClassTexts ==
  { classText(name, blank, semi) :
      name \in DeclNames, blank \in { <<>>, <<" ">> }, semi \in { <<>>, <<";">> } }

\* bound of the class bodies: a class has at most MaxMembers members
MaxMembers == 2

\* the members a class body is made of: the text of a variable or function
\* declaration, and what it declares
ClassMembers ==
  { [text |-> <<"i", "n", "t", " ", "x", ";">>,
     kind |-> "VarDecl", name |-> <<"x">>, type |-> <<"i", "n", "t">>,
     parameters |-> <<>>],
    [text |-> <<"v", "o", "i", "d", " ", "B", "a", "r", "(", "i", "n", "t", " ", "y", ")", " ", "{", "}">>,
     kind |-> "FunctionDecl", name |-> <<"B", "a", "r">>, type |-> <<"v", "o", "i", "d">>,
     parameters |-> <<[name |-> <<"y">>, type |-> <<"i", "n", "t">>]>>],
    [text |-> <<"F", "o", "o", " ", "B", "a", "z", "(", "i", "n", "t", " ", "a", ",", " ", "B", "a", "s", "e", " ", "b", ")", " ", "{", " ", "i", "f", " ", "(", "a", ")", " ", "{", " ", "b", ";", " ", "}", " ", "}">>,
     kind |-> "FunctionDecl", name |-> <<"B", "a", "z">>, type |-> <<"F", "o", "o">>,
     parameters |-> <<[name |-> <<"a">>, type |-> <<"i", "n", "t">>], [name |-> <<"b">>, type |-> <<"B", "a", "s", "e">>]>>],
    [text |-> <<"B", "a", "s", "e", " ", "z", ";">>,
     kind |-> "VarDecl", name |-> <<"z">>, type |-> <<"B", "a", "s", "e">>,
     parameters |-> <<>>] }

\* the sequences of at most n members
RECURSIVE memberLists(_)
memberLists(n) ==
  IF n = 0 THEN { <<>> }
  ELSE memberLists(n - 1) \cup { Append(ms, m) : ms \in memberLists(n - 1), m \in ClassMembers }

\* the ways a class names its base
ClassBases == { <<>>, <<":", " ", "B", "a", "s", "e">>, <<"e", "x", "t", "e", "n", "d", "s", " ", "B", "a", "s", "e">> }

\* `class Foo : Base { members }`
classBodyText(base, ms) ==
  words(<<<<"c", "l", "a", "s", "s", " ", "F", "o", "o">>>> \o (IF base = <<>> THEN <<>> ELSE <<base>>)
        \o <<<<"{">>>> \o [i \in 1..Len(ms) |-> ms[i].text] \o <<<<"}">>>>)

ClassBodyTexts ==
  { classBodyText(base, ms) : base \in ClassBases, ms \in memberLists(MaxMembers) }

\* bound of the enum bodies: an enum has at most MaxEnumerators enumerators
MaxEnumerators == 3

EnumeratorNames == { <<"R", "e", "d">>, <<"G", "r", "e", "e", "n">>, <<"B", "l", "u", "e">> }

\* the sequences of at most n enumerators
RECURSIVE enumeratorLists(_)
enumeratorLists(n) ==
  IF n = 0 THEN { <<>> }
  ELSE enumeratorLists(n - 1)
         \cup { Append(ids, id) : ids \in enumeratorLists(n - 1), id \in EnumeratorNames }

\* `enum Name { A, B, C }`
enumText(name, ids) ==
  words(<<<<"e", "n", "u", "m">>, name, <<"{">>, join(ids, <<",", " ">>), <<"}">>>>)

EnumTexts ==
  { enumText(name, ids) : name \in DeclNames, ids \in enumeratorLists(MaxEnumerators) }

\* bound of the array types: at most MaxDims bracket pairs after the type
\* and at most MaxDims after the name
MaxDims == 2

\* a bracket pair and the dimension it declares: a number, a symbolic name
\* or nothing
DimPieces ==
  { [text |-> <<"[", "3", "]">>, dim |-> "number", num |-> 3, name |-> <<>>],
    [text |-> <<"[", "N", "]">>, dim |-> "string", num |-> 0, name |-> <<"N">>],
    [text |-> <<"[", "]">>, dim |-> "undefined", num |-> 0, name |-> <<>>] }

\* the sequences of at most n bracket pairs
RECURSIVE dimLists(_)
dimLists(n) ==
  IF n = 0 THEN { <<>> }
  ELSE dimLists(n - 1) \cup { Append(ds, d) : ds \in dimLists(n - 1), d \in DimPieces }

\* the text of a sequence of bracket pairs
dimsText(ds) == join([i \in 1..Len(ds) |-> ds[i].text], <<>>)

\* `int[..][..] x[..][..];`
arrayText(typeDims, nameDims) ==
  <<"i", "n", "t">> \o dimsText(typeDims) \o <<" ", "x">> \o dimsText(nameDims) \o <<";">>

ArrayTexts ==
  { arrayText(typeDims, nameDims) :
      typeDims \in dimLists(MaxDims), nameDims \in dimLists(MaxDims) }

\* bound of the variable lists: at most MaxNames names after the type
MaxNames == 2

VarTypes == { <<"i", "n", "t">>, <<"F", "o", "o">> }
VarNames == { <<"a">>, <<"b">>, <<"c">> }

\* the sequences of at least one and at most n names
RECURSIVE nameLists(_)
nameLists(n) ==
  IF n = 1 THEN { <<v>> : v \in VarNames }
  ELSE nameLists(n - 1) \cup { Append(vs, v) : vs \in nameLists(n - 1), v \in VarNames }

\* `T a, b;`
varListText(type, names) == type \o <<" ">> \o join(names, <<",", " ">>) \o <<";">>

VarListTexts == { varListText(type, names) : type \in VarTypes, names \in nameLists(MaxNames) }

\* bound of the initializers: at most MaxInit tokens after the `=`
MaxInit == 3

\* the tokens an initializer is made of: a number, a name, a string, the
\* signs, a product, a member access and the four kinds of brackets
InitTokens ==
  { <<"1">>, <<"a">>, <<"\"", "s", "\"">>, <<"+">>, <<"-">>, <<"*">>, <<".">>,
    <<"(">>, <<")">>, <<"[">>, <<"]">>, <<"{">>, <<"}">>, <<"<">>, <<">">> }

\* the closing bracket of an opening one
closes(open) ==
  CASE open = <<"(">> -> <<")">>
    [] open = <<"[">> -> <<"]">>
    [] open = <<"{">> -> <<"}">>
    [] open = <<"<">> -> <<">">>

\* the brackets of a token sequence are balanced: stack holds the closing
\* brackets that are still awaited, the innermost first
RECURSIVE balanced(_, _)
balanced(tokens, stack) ==
  IF tokens = <<>> THEN stack = <<>>
  ELSE IF tokens[1] \in { <<"(">>, <<"[">>, <<"{">>, <<"<">> }
  THEN balanced(Tail(tokens), <<closes(tokens[1])>> \o stack)
  ELSE IF tokens[1] \in { <<")">>, <<"]">>, <<"}">>, <<">">> }
  THEN stack # <<>> /\ stack[1] = tokens[1] /\ balanced(Tail(tokens), Tail(stack))
  ELSE balanced(Tail(tokens), stack)

\* the sequences of at least one and at most n tokens
RECURSIVE tokenLists(_)
tokenLists(n) ==
  IF n = 1 THEN { <<t>> : t \in InitTokens }
  ELSE tokenLists(n - 1) \cup { Append(ts, t) : ts \in tokenLists(n - 1), t \in InitTokens }

\* the initializers: the token sequences whose brackets are balanced
Initializers == { ts \in tokenLists(MaxInit) : balanced(ts, <<>>) }

\* `int x = initializer; Foo y;`, and the same without the initializer
initializedVarText(init) ==
  words(<<<<"i", "n", "t">>, <<"x">>>>
        \o (IF init = <<>> THEN <<>> ELSE <<<<"=">>>> \o init)
        \o <<<<";">>, <<"F", "o", "o">>, <<"y">>, <<";">>>>)

\* `void f(int a = initializer, Foo b);`, and the same without the initializer
initializedParamText(init) ==
  words(<<<<"v", "o", "i", "d">>, <<"f">>, <<"(">>, <<"i", "n", "t">>, <<"a">>>>
        \o (IF init = <<>> THEN <<>> ELSE <<<<"=">>>> \o init)
        \o <<<<",">>, <<"F", "o", "o">>, <<"b">>, <<")">>, <<";">>>>)

InitializerTexts ==
  { initializedVarText(init) : init \in Initializers \cup { <<>> } }
  \cup { initializedParamText(init) : init \in Initializers \cup { <<>> } }

\* bound of the generic classes: at most MaxGenericVars parameters
MaxGenericVars == 2

\* the names of class-level generic parameters
GenericVarNames == { <<"T", "1">>, <<"T", "2">>, <<"T">> }

\* the sequences of at least one and at most n parameter names
RECURSIVE genericVarLists(_)
genericVarLists(n) ==
  IF n = 1 THEN { <<v>> : v \in GenericVarNames }
  ELSE genericVarLists(n - 1)
       \cup { Append(vs, v) : vs \in genericVarLists(n - 1), v \in GenericVarNames }

\* `Class T1, Class T2`
RECURSIVE genericParams(_)
genericParams(names) ==
  IF names = <<>> THEN <<>>
  ELSE <<"C", "l", "a", "s", "s", " ">> \o names[1]
       \o (IF Len(names) = 1 THEN <<>> ELSE <<",", " ">> \o genericParams(Tail(names)))

\* `class Name<Class T1, Class T2> : Base { }`; no names: no `<...>` list
genericClassText(name, names, base) ==
  <<"c", "l", "a", "s", "s", " ">> \o name
  \o (IF names = <<>> THEN <<>> ELSE <<"<">> \o genericParams(names) \o <<">">>)
  \o (IF base = <<>> THEN <<>> ELSE <<" ">> \o base)
  \o <<" ", "{", " ", "}">>

GenericClassTexts ==
  { genericClassText(name, names, base) :
      name \in DeclNames, names \in genericVarLists(MaxGenericVars) \cup { <<>> },
      base \in ClassBases }

\* the declarations that are cut short, each as the sequence of its tokens
TruncatedDecls ==
  { <<<<"c", "l", "a", "s", "s">>, <<"F", "o", "o">>, <<":">>, <<"B", "a", "s", "e">>, <<"{">>, <<"i", "n", "t">>, <<"x">>, <<";">>, <<"v", "o", "i", "d">>, <<"B", "a", "r">>, <<"(">>, <<"i", "n", "t">>, <<"y">>, <<")">>, <<"{">>, <<"}">>, <<"}">>>>,
    <<<<"[">>, <<"A", "t", "t", "r">>, <<"(">>, <<"1">>, <<",">>, <<"\"", "s", "\"">>, <<")">>, <<"]">>, <<"i", "n", "t">>, <<"x">>, <<"[">>, <<"3">>, <<"]">>, <<"=">>, <<"(">>, <<"1">>, <<")">>, <<";">>>>,
    <<<<"e", "n", "u", "m">>, <<"E">>, <<":">>, <<"i", "n", "t">>, <<"{">>, <<"A">>, <<",">>, <<"B">>, <<"}">>>>,
    <<<<"t", "y", "p", "e", "d", "e", "f">>, <<"m", "a", "p">>, <<"<">>, <<"i", "n", "t">>, <<",">>, <<"F", "o", "o">>, <<">">>, <<"M">>, <<";">>>>,
    <<<<"v", "o", "i", "d">>, <<"f">>, <<"(">>, <<"i", "n", "t">>, <<"a">>, <<"=">>, <<"1">>, <<",">>, <<"F", "o", "o">>, <<"b">>, <<")">>, <<";">>>>,
    <<<<"v", "o", "i", "d">>, <<"~", "F", "o", "o">>, <<"(">>, <<")">>, <<";">>>> }

\* the text of the first k tokens of a declaration
truncatedText(decl, k) == words(SubSeq(decl, 1, k))

TruncatedTexts ==
  UNION { { truncatedText(decl, k) : k \in 0..Len(decl) } : decl \in TruncatedDecls }

\* bound of the trivia: at most MaxTrivia comments or preprocessor lines are
\* put into a text
MaxTrivia == 2

\* a block comment, a line comment and a preprocessor line
TriviaPieces ==
  { <<"/", "*", "c", "*", "/">>, <<"/", "/", "c", "\n">>, <<"#", "i", "f", "\n">> }

\* the insertions into a sequence of k tokens: at least one and at most n
\* pieces, each after the first `gap` tokens, the gaps in ascending order
RECURSIVE insertions(_, _)
insertions(k, n) ==
  IF n = 1 THEN { <<[gap |-> g, piece |-> p]>> : g \in 0..k, p \in TriviaPieces }
  ELSE insertions(k, n - 1)
       \cup { Append(ins, [gap |-> g, piece |-> p]) :
                ins \in insertions(k, n - 1), g \in 0..k, p \in TriviaPieces }

ascending(ins) == \A i \in 1..(Len(ins) - 1) : ins[i].gap <= ins[i + 1].gap

\* the tokens with the pieces put in, the last insertion first
RECURSIVE insertTrivia(_, _)
insertTrivia(tokens, ins) ==
  IF ins = <<>> THEN tokens
  ELSE insertTrivia(SubSeq(tokens, 1, ins[Len(ins)].gap) \o <<ins[Len(ins)].piece>>
                    \o SubSeq(tokens, ins[Len(ins)].gap + 1, Len(tokens)),
                    SubSeq(ins, 1, Len(ins) - 1))

\* the declarations that comments and preprocessor lines are put into
TriviaDecls ==
  { <<<<"c", "l", "a", "s", "s">>, <<"F", "o", "o">>, <<"{">>, <<"i", "n", "t">>, <<"x">>, <<";">>, <<"}">>>>,
    <<<<"[">>, <<"A", "t", "t", "r">>, <<"]">>, <<"s", "t", "a", "t", "i", "c">>, <<"i", "n", "t">>, <<"x">>, <<"[">>, <<"3">>, <<"]">>, <<"=">>, <<"-">>, <<"1">>, <<";">>>>,
    <<<<"v", "o", "i", "d">>, <<"~", "F", "o", "o">>, <<"(">>, <<"i", "n", "t">>, <<"a">>, <<")">>, <<"{">>, <<"}">>>>,
    <<<<"e", "n", "u", "m">>, <<"E">>, <<"{">>, <<"A">>, <<"}">>>>,
    <<<<"t", "y", "p", "e", "d", "e", "f">>, <<"i", "n", "t">>, <<"M">>, <<";">>>> }

\* the first k tokens of a declaration with comments and preprocessor lines
\* between them
triviaText(decl, k, ins) == words(insertTrivia(SubSeq(decl, 1, k), ins))

TriviaTexts ==
  UNION { UNION { { triviaText(decl, k, ins) :
                      ins \in { i \in insertions(k, MaxTrivia) : ascending(i) } } :
                  k \in 1..Len(decl) } :
          decl \in TriviaDecls }

\* bound of the function bodies: at most MaxBodyPieces pieces after the `{`
MaxBodyPieces == 3

\* what is written after the opening brace of a body: a variable, a class, a
\* brace that opens and a brace that closes
BodyPieces ==
  { <<<<"i", "n", "t">>, <<"x">>, <<";">>>>,
    <<<<"c", "l", "a", "s", "s">>, <<"F", "o", "o">>, <<"{">>, <<"}">>>>,
    <<<<"{">>>>,
    <<<<"}">>>> }

\* the sequences of at most n pieces
RECURSIVE bodyLists(_)
bodyLists(n) ==
  IF n = 0 THEN { <<>> }
  ELSE bodyLists(n - 1) \cup { Append(ps, p) : ps \in bodyLists(n - 1), p \in BodyPieces }

\* the tokens of a sequence of pieces
RECURSIVE bodyTokens(_)
bodyTokens(pieces) ==
  IF pieces = <<>> THEN <<>> ELSE pieces[1] \o bodyTokens(Tail(pieces))

\* the brace depth, depth at the start, never comes back to 0 over the tokens
RECURSIVE neverBalanced(_, _)
neverBalanced(tokens, depth) ==
  IF depth = 0 THEN FALSE
  ELSE IF tokens = <<>> THEN TRUE
  ELSE neverBalanced(Tail(tokens),
         IF tokens[1] = <<"{">> THEN depth + 1
         ELSE IF tokens[1] = <<"}">> THEN depth - 1
         ELSE depth)

\* the bodies that the input ends in
OpenBodies == { ps \in bodyLists(MaxBodyPieces) : neverBalanced(bodyTokens(ps), 1) }

\* what is written before the function: nothing, or a variable
BodyPrefixes == { <<>>, <<<<"i", "n", "t">>, <<"y">>, <<";">>>> }

\* `int y ; void f ( int a ) { pieces` and the end of the input
openBodyText(prefix, pieces) ==
  words(prefix \o <<<<"v", "o", "i", "d">>, <<"f">>, <<"(">>, <<"i", "n", "t">>, <<"a">>, <<")">>, <<"{">>>> \o bodyTokens(pieces))

OpenBodyTexts ==
  { openBodyText(prefix, pieces) : prefix \in BodyPrefixes, pieces \in OpenBodies }

\* the texts of the parsed documents
ParserTexts ==
  EmptyClassTexts \cup ClassBodyTexts \cup EnumTexts
  \cup ArrayTexts \cup VarListTexts
  \cup InitializerTexts
  \cup GenericClassTexts
  \cup TruncatedTexts
  \cup TriviaTexts
  \cup OpenBodyTexts

\* the inputs: the text of a document
ParserInit ==
  /\ docCache = <<>>
  /\ \E text \in ParserTexts : lastOp = Applied("input", text, 0, <<>>, <<>>)

\* parse(doc): out is the body of the File, err the exception raised
Parse ==
  /\ lastOp.op = "input"
  /\ \E r \in { parse(TextDocument(uriTest, 1, lastOp.text)) } :
       lastOp' = Applied("parse", lastOp.text, 0,
                         IF Threw(r) THEN <<>> ELSE r.val.body, r.err)
  /\ UNCHANGED docCache

ParserNext == Parse

ParserSpec == ParserInit /\ [][ParserNext]_vars

\* C14: a document consisting of `class Name { }`, optionally followed by
\* `;`, parses to a File whose body is exactly one ClassDecl named Name with
\* zero members and no base.
C14_EmptyClass ==
  \A name \in DeclNames, blank \in { <<>>, <<" ">> }, semi \in { <<>>, <<";">> } :
    (lastOp.op = "parse" /\ lastOp.text = classText(name, blank, semi))
    => /\ lastOp.err = <<>>
       /\ Len(lastOp.out) = 1
       /\ lastOp.out[1].kind = "ClassDecl"
       /\ lastOp.out[1].name = name
       /\ lastOp.out[1].members = <<>>
       /\ lastOp.out[1].base = <<>>

\* C14 witness: the document of the parser's test, `class Foo { };`
C14_Witness ==
  /\ lastOp.op = "parse"
  /\ lastOp.text = classText(<<"F", "o", "o">>, <<" ">>, <<";">>)
  /\ Len(lastOp.out) = 1

\* the type a member was declared with
declaredType(node) ==
  IF node.kind = "FunctionDecl" THEN node.returnType.identifier ELSE node.type.identifier

\* C15: a class body made of variable and function declarations yields a
\* ClassDecl whose members are those declarations in source order, with the
\* base type recorded, each function's parameters recorded as VarDecls in
\* order, its body skipped and its locals empty.
C15_ClassMembersInOrder ==
  \A base \in ClassBases, ms \in memberLists(MaxMembers) :
    (lastOp.op = "parse" /\ lastOp.text = classBodyText(base, ms))
    => /\ lastOp.err = <<>>
       /\ Len(lastOp.out) = 1
       /\ lastOp.out[1].kind = "ClassDecl"
       /\ lastOp.out[1].name = <<"F", "o", "o">>
       /\ IF base = <<>> THEN lastOp.out[1].base = <<>>
          ELSE /\ lastOp.out[1].base # <<>>
               /\ lastOp.out[1].base[1].identifier = <<"B", "a", "s", "e">>
       /\ Len(lastOp.out[1].members) = Len(ms)
       /\ \A i \in 1..Len(ms) :
            /\ lastOp.out[1].members[i].kind = ms[i].kind
            /\ lastOp.out[1].members[i].name = ms[i].name
            /\ declaredType(lastOp.out[1].members[i]) = ms[i].type
            /\ ms[i].kind = "FunctionDecl" =>
                 /\ lastOp.out[1].members[i].locals = <<>>
                 /\ Len(lastOp.out[1].members[i].parameters) = Len(ms[i].parameters)
                 /\ \A j \in 1..Len(ms[i].parameters) :
                      /\ lastOp.out[1].members[i].parameters[j].kind = "VarDecl"
                      /\ lastOp.out[1].members[i].parameters[j].name = ms[i].parameters[j].name
                      /\ lastOp.out[1].members[i].parameters[j].type.identifier
                           = ms[i].parameters[j].type

\* C15 witness: `class Foo : Base { int x; void Bar(int y) {} }`
C15_Witness ==
  /\ lastOp.op = "parse"
  /\ lastOp.text = <<"c", "l", "a", "s", "s", " ", "F", "o", "o", " ", ":", " ", "B", "a", "s", "e", " ", "{", " ", "i", "n", "t", " ", "x", ";", " ", "v", "o", "i", "d", " ", "B", "a", "r", "(", "i", "n", "t", " ", "y", ")", " ", "{", "}", " ", "}">>
  /\ Len(lastOp.out) = 1
  /\ Len(lastOp.out[1].members) = 2
  /\ lastOp.out[1].members[2].parameters # <<>>

\* C16: `enum Name { A, B, C }` parses to exactly one EnumDecl named Name
\* whose members are one entry per identifier between the braces, in source
\* order.
C16_EnumMembersInOrder ==
  \A name \in DeclNames, ids \in enumeratorLists(MaxEnumerators) :
    (lastOp.op = "parse" /\ lastOp.text = enumText(name, ids))
    => /\ lastOp.err = <<>>
       /\ Len(lastOp.out) = 1
       /\ lastOp.out[1].kind = "EnumDecl"
       /\ lastOp.out[1].name = name
       /\ Len(lastOp.out[1].members) = Len(ids)
       /\ \A i \in 1..Len(ids) : lastOp.out[1].members[i].name = ids[i]

\* C16 witness: `enum Foo { Red, Green, Blue }`
C16_Witness ==
  /\ lastOp.op = "parse"
  /\ lastOp.text = <<"e", "n", "u", "m", " ", "F", "o", "o", " ", "{", " ", "R", "e", "d", ",", " ", "G", "r", "e", "e", "n", ",", " ", "B", "l", "u", "e", " ", "}">>
  /\ Len(lastOp.out) = 1
  /\ Len(lastOp.out[1].members) = 3

\* C17: array dimensions are appended to the type's arrayDims left to right,
\* one entry per bracket pair (the number, the symbolic name, or absent for
\* empty brackets), whether the brackets follow the type or the variable
\* name; a declaration that has brackets both after the type and after the
\* name is a parse failure.
C17_ArrayDimsInOrder ==
  \A typeDims \in dimLists(MaxDims), nameDims \in dimLists(MaxDims) :
    (lastOp.op = "parse" /\ lastOp.text = arrayText(typeDims, nameDims))
    => IF typeDims # <<>> /\ nameDims # <<>>
       THEN lastOp.err # <<>>
       ELSE /\ lastOp.err = <<>>
            /\ Len(lastOp.out) = 1
            /\ lastOp.out[1].kind = "VarDecl"
            /\ lastOp.out[1].name = <<"x">>
            /\ lastOp.out[1].type.identifier = <<"i", "n", "t">>
            /\ lastOp.out[1].type.arrayDims
                 = [i \in 1..Len(typeDims \o nameDims) |->
                      [dim |-> (typeDims \o nameDims)[i].dim,
                       num |-> (typeDims \o nameDims)[i].num,
                       name |-> (typeDims \o nameDims)[i].name]]

\* C17 witness: `int[3][] x;`
C17_Witness ==
  /\ lastOp.op = "parse"
  /\ lastOp.text = <<"i", "n", "t", "[", "3", "]", "[", "]", " ", "x", ";">>
  /\ Len(lastOp.out) = 1
  /\ Len(lastOp.out[1].type.arrayDims) = 2
  /\ lastOp.out[1].type.arrayDims[1].num = 3
  /\ lastOp.out[1].type.arrayDims[2].dim = "undefined"

\* C18: a declaration of the form `T a, b;` (a type, then comma-separated
\* names, not followed by `(`) parses successfully and yields one VarDecl per
\* name, in source order, every one carrying the leading type T.
C18_OneVarDeclPerName ==
  \A type \in VarTypes, names \in nameLists(MaxNames) :
    (lastOp.op = "parse" /\ lastOp.text = varListText(type, names))
    => /\ lastOp.err = <<>>
       /\ Len(lastOp.out) = Len(names)
       /\ \A i \in 1..Len(names) :
            /\ lastOp.out[i].kind = "VarDecl"
            /\ lastOp.out[i].name = names[i]
            /\ lastOp.out[i].type.identifier = type

\* the name and the type of a declaration, its positions left out
nameAndType(node) ==
  [kind |-> node.kind, name |-> node.name, identifier |-> node.type.identifier,
   arrayDims |-> node.type.arrayDims, genericArgs |-> node.type.genericArgs,
   modifiers |-> node.type.modifiers, fields |-> DOMAIN node]

\* the declarations of `int x; Foo y;`
plainVars == parse(TextDocument(uriTest, 1, initializedVarText(<<>>))).val.body

\* the parameters of `void f(int a, Foo b);`
plainParams ==
  parse(TextDocument(uriTest, 1, initializedParamText(<<>>))).val.body[1].parameters

\* C19: a variable declaration with `= initializer` parses to the same
\* VarDecl (name and type) as the declaration without the initializer, for
\* every initializer token sequence whose brackets ()[]{}<> are balanced:
\* the initializer's tokens are discarded up to the terminating `;` (for a
\* parameter, up to `,` or `)`), nothing of it is retained, and the
\* declaration that follows is parsed normally.
C19_InitializerDiscarded ==
  \A init \in Initializers :
    /\ (lastOp.op = "parse" /\ lastOp.text = initializedVarText(init))
       => /\ lastOp.err = <<>>
          /\ Len(lastOp.out) = 2
          /\ \A i \in 1..2 : nameAndType(lastOp.out[i]) = nameAndType(plainVars[i])
    /\ (lastOp.op = "parse" /\ lastOp.text = initializedParamText(init))
       => /\ lastOp.err = <<>>
          /\ Len(lastOp.out) = 1
          /\ Len(lastOp.out[1].parameters) = 2
          /\ \A i \in 1..2 :
               nameAndType(lastOp.out[1].parameters[i]) = nameAndType(plainParams[i])

\* C20: `class Name<Class T1, Class T2> { ... }` parses to a ClassDecl whose
\* genericVars is the list of the parameter names in source order, and a
\* class written without a `<...>` parameter list has genericVars absent.
C20_GenericVarsInOrder ==
  \A name \in DeclNames, base \in ClassBases :
    \A names \in genericVarLists(MaxGenericVars) \cup { <<>> } :
      (lastOp.op = "parse" /\ lastOp.text = genericClassText(name, names, base))
      => /\ lastOp.err = <<>>
         /\ Len(lastOp.out) = 1
         /\ lastOp.out[1].kind = "ClassDecl"
         /\ lastOp.out[1].name = name
         /\ IF names = <<>>
            THEN "genericVars" \notin DOMAIN lastOp.out[1]
            ELSE /\ "genericVars" \in DOMAIN lastOp.out[1]
                 /\ lastOp.out[1].genericVars = names

\* the 1-based (line, column) of the tokens the parser can look at
tokenPositions(text) ==
  { [line |-> positionAt(text, t.start).line + 1,
     column |-> positionAt(text, t.start).character + 1] :
      t \in { lex(text)[i] : i \in 1..Len(lex(text)) } }

\* C21: every parse failure is a positioned failure: when an expected token,
\* punctuation or identifier is absent (also when the input ends inside a
\* declaration, an annotation or a parameter list), parse raises a ParseError
\* that carries the document URI and the 1-based line and column of the
\* offending token, and no File is produced.
C21_PositionedFailure ==
  (lastOp.op = "parse" /\ lastOp.err # <<>>)
  => /\ lastOp.err[1].name = "ParseError"
     /\ lastOp.err[1].uri = uriTest
     /\ [line |-> lastOp.err[1].line, column |-> lastOp.err[1].column]
          \in tokenPositions(lastOp.text)
     /\ lastOp.out = <<>>

\* the values of the tokens that are neither trivia nor EOF
RECURSIVE significant(_)
significant(toks) ==
  IF toks = <<>> THEN <<>>
  ELSE IF toks[1].kind \in { "Comment", "Preproc", "EOF" } THEN significant(Tail(toks))
  ELSE <<toks[1].value>> \o significant(Tail(toks))

\* a text with its comments and preprocessor lines taken out
withoutTrivia(text) == words(significant(lex(text)))

\* a type without its positions
RECURSIVE typeShape(_)
typeShapes(types) == [i \in 1..Len(types) |-> typeShape(types[i])]
typeShape(t) ==
  [identifier |-> t.identifier, arrayDims |-> t.arrayDims, modifiers |-> t.modifiers,
   genericArgs |-> [i \in 1..Len(t.genericArgs) |-> typeShapes(t.genericArgs[i])]]

\* a declaration without its positions: kind, name, types, modifiers,
\* annotations and members in order
RECURSIVE declShape(_)
declShapes(nodes) == [i \in 1..Len(nodes) |-> declShape(nodes[i])]
declShape(node) ==
  CASE node.kind = "ClassDecl" ->
         [kind |-> node.kind, name |-> node.name, annotations |-> node.annotations,
          modifiers |-> node.modifiers, types |-> typeShapes(node.base),
          members |-> declShapes(node.members)]
    [] node.kind = "EnumDecl" ->
         [kind |-> node.kind, name |-> node.name, annotations |-> node.annotations,
          modifiers |-> node.modifiers, types |-> node.base,
          members |-> declShapes(node.members)]
    [] node.kind = "FunctionDecl" ->
         [kind |-> node.kind, name |-> node.name, annotations |-> node.annotations,
          modifiers |-> node.modifiers, types |-> <<typeShape(node.returnType)>>,
          members |-> declShapes(node.parameters)]
    [] node.kind = "Typedef" ->
         [kind |-> node.kind, name |-> node.name, annotations |-> node.annotations,
          modifiers |-> node.modifiers, types |-> <<typeShape(node.oldType)>>,
          members |-> <<>>]
    [] node.kind = "VarDecl" ->
         [kind |-> node.kind, name |-> node.name, annotations |-> node.annotations,
          modifiers |-> node.modifiers, types |-> <<typeShape(node.type)>>,
          members |-> <<>>]
    [] node.kind = "EnumMemberDecl" ->
         [kind |-> node.kind, name |-> node.name, annotations |-> node.annotations,
          modifiers |-> node.modifiers, types |-> <<>>, members |-> <<>>]

\* the outcome of a parse without positions: failed, or the declarations
outcomeShape(r) ==
  IF Threw(r) THEN [failed |-> TRUE, body |-> <<>>]
  ELSE [failed |-> FALSE, body |-> declShapes(r.val.body)]

\* C22: Comment and Preprocessor tokens are transparent to the parser: a text
\* with comments and preprocessor lines between its tokens has the same parse
\* outcome as the text without them - both fail, or both yield the same
\* declarations (kinds, names, types, modifiers, members, order), the
\* positions aside.
C22_TriviaTransparent ==
  lastOp.op = "parse"
  => [failed |-> lastOp.err # <<>>, body |-> declShapes(lastOp.out)]
     = outcomeShape(parse(TextDocument(uriTest, 1, withoutTrivia(lastOp.text))))

\* C22 witness: a text with a comment and a preprocessor line in it has
\* parsed to a declaration
C22_Witness ==
  /\ lastOp.op = "parse"
  /\ lastOp.err = <<>>
  /\ lastOp.out # <<>>
  /\ \E i, j \in 1..Len(lex(lastOp.text)) :
       /\ lex(lastOp.text)[i].kind = "Comment"
       /\ lex(lastOp.text)[j].kind = "Preproc"

\* a position is not after another one
notAfter(p, q) == p.line < q.line \/ (p.line = q.line /\ p.character <= q.character)

\* the declarations nested in a declaration: the members of a class, the
\* parameters of a function
nested(node) ==
  IF node.kind = "ClassDecl" THEN node.members
  ELSE IF node.kind = "FunctionDecl" THEN node.parameters
  ELSE <<>>

\* the declarations of a list at every nesting depth
RECURSIVE allDecls(_)
allDecls(nodes) ==
  IF nodes = <<>> THEN {}
  ELSE { nodes[1] } \cup allDecls(nested(nodes[1])) \cup allDecls(Tail(nodes))

\* C23: every declaration node produced by a successful parse (class, enum,
\* typedef, function, variable, at any nesting depth) satisfies
\* start <= nameStart <= nameEnd <= end.
C23_NameWithinDeclaration ==
  (lastOp.op = "parse" /\ lastOp.err = <<>>)
  => \A node \in allDecls(lastOp.out) :
       /\ notAfter(node.start, node.nameStart)
       /\ notAfter(node.nameStart, node.nameEnd)
       /\ notAfter(node.nameEnd, node.end)

\* C23 witness: a parse has produced a class, a function, a typedef or an
\* enum and a nested variable whose name is on a later line than its type
C23_Witness ==
  /\ lastOp.op = "parse"
  /\ lastOp.err = <<>>
  /\ \E node \in allDecls(lastOp.out) : node.kind # "VarDecl"
  /\ \E top \in allDecls(lastOp.out) : \E node \in allDecls(nested(top)) :
       /\ node.kind = "VarDecl"
       /\ node.start.line < node.nameStart.line

\* C24: in every File produced by a successful parse, the [start, end] range
\* of every class member lies within the range of its declaring class:
\* class.start <= member.start and member.end <= class.end.
C24_MemberWithinClass ==
  (lastOp.op = "parse" /\ lastOp.err = <<>>)
  => \A class \in allDecls(lastOp.out) :
       class.kind = "ClassDecl"
       => \A i \in 1..Len(class.members) :
            /\ notAfter(class.start, class.members[i].start)
            /\ notAfter(class.members[i].end, class.end)

\* C24 witness: a parsed class has a variable and a function as members, and
\* the function ends where the class ends (the class closes the text)
C24_Witness ==
  /\ lastOp.op = "parse"
  /\ lastOp.err = <<>>
  /\ Len(lastOp.out) = 1
  /\ lastOp.out[1].kind = "ClassDecl"
  /\ Len(lastOp.out[1].members) = 2
  /\ lastOp.out[1].members[1].kind = "VarDecl"
  /\ lastOp.out[1].members[2].kind = "FunctionDecl"
  /\ lastOp.out[1].members[2].end = lastOp.out[1].end

\* C30: function-body skipping consumes tokens from the opening `{` until the
\* brace depth returns to 0 or the input ends, and raises no failure when the
\* input ends first: a top-level function whose body braces never balance
\* still parses to a FunctionDecl, the parse succeeds, and every declaration
\* written after the opening brace is absent from File.body.
C30_OpenBodySkipped ==
  \A prefix \in BodyPrefixes, pieces \in OpenBodies :
    (lastOp.op = "parse" /\ lastOp.text = openBodyText(prefix, pieces))
    => /\ lastOp.err = <<>>
       /\ Len(lastOp.out) = (IF prefix = <<>> THEN 1 ELSE 2)
       /\ prefix # <<>> => lastOp.out[1].kind = "VarDecl" /\ lastOp.out[1].name = <<"y">>
       /\ lastOp.out[Len(lastOp.out)].kind = "FunctionDecl"
       /\ lastOp.out[Len(lastOp.out)].name = <<"f">>
       /\ Len(lastOp.out[Len(lastOp.out)].parameters) = 1
       /\ lastOp.out[Len(lastOp.out)].locals = <<>>

\* C30 witness: a function whose body holds a closed pair of braces, then a
\* class, and is never closed, has parsed to the function alone
C30_Witness ==
  /\ lastOp.op = "parse"
  /\ lastOp.err = <<>>
  /\ lastOp.text = openBodyText(<<>>, <<<<<<"{">>>>, <<<<"}">>>>, <<<<"c", "l", "a", "s", "s">>, <<"F", "o", "o">>, <<"{">>, <<"}">>>>>>)
  /\ Len(lastOp.out) = 1

(***************************************************************************)
(* parse called again and again, between requests that change the index    *)
(***************************************************************************)

\* a faulty variant of a parse call, against which its determinism is
\* tested: the File under construction outlives the call, so that a call
\* adds its declarations to those of the call before it
Reparse_sharedFile(doc) ==
  /\ \E r \in { parsed[doc] } :
       lastOp' = Call("parse", doc, NoPosition, <<>>, "none",
                      IF Threw(r) THEN NoFile
                      ELSE IF lastOp.op = "parse"
                      THEN File(lastOp.file.body \o r.val.body, doc.version)
                      ELSE r.val,
                      <<>>, r.err)
  /\ UNCHANGED docCache

\* a call of parse(doc): file is the File returned, err the exception raised;
\* the call reads the document and nothing of the index
Reparse(doc) ==
  /\ \E r \in { parsed[doc] } :
       lastOp' = Call("parse", doc, NoPosition, <<>>, "none",
                      IF Threw(r) THEN NoFile ELSE r.val, <<>>, r.err)
  /\ UNCHANGED docCache

\* parse calls in any order, between requests that parse and fill the cache
ReparseNext ==
  \/ \E doc \in Docs : Reparse(doc)
  \/ \E doc \in Docs : GetCompletions(doc)

ReparseSpec == Init /\ [][ReparseNext]_vars

cacheKeys(cache) == { cache[i].key : i \in 1..Len(cache) }

\* C26: no Index operation ever removes a cache entry: a URI that has an
\* entry in the cache has an entry after every step, whatever the request
\* (ensure, successful or failing, or a query).
C26_EntriesPersist ==
  [][cacheKeys(docCache) \subseteq cacheKeys(docCache')]_vars

\* C26 witness: the cache holds two entries right after a request whose
\* parse failed for a URI that has one of them
C26_Witness ==
  /\ lastOp.op \in EnsureOps
  /\ lastOp.branch = "failed"
  /\ Cardinality(cacheKeys(docCache)) = 2
  /\ normalized[lastOp.doc.uri] \in cacheKeys(docCache)

\* the cache holds under the URI of doc a File of doc's version that is not
\* what doc's text parses to: it was built from another text
staleAt(cache, doc) ==
  { i \in entriesAt(cache, normalized[doc.uri]) :
      /\ cache[i].file.version = doc.version
      /\ (Threw(parsed[doc]) \/ cache[i].file # parsed[doc].val) }

\* C27: re-parsing is triggered by version inequality alone: ensure called
\* with the URI and the version of the cached File but with another text
\* returns the cached File (built from the old text) and neither parses nor
\* changes the cache.
C27_SameVersionNoReparse ==
  [][(lastOp'.op \in EnsureOps /\ staleAt(docCache, lastOp'.doc) # {})
     => /\ lastOp'.branch = "hit"
        /\ lastOp'.err = <<>>
        /\ \A i \in staleAt(docCache, lastOp'.doc) : lastOp'.file = docCache[i].file
        /\ docCache' = docCache
    ]_vars

\* C27 witness: a request has been answered from the cache with a File that
\* is not what the text of its document parses to
C27_Witness ==
  /\ lastOp.op \in EnsureOps
  /\ lastOp.branch = "hit"
  /\ lastOp.file.body # <<>>
  /\ ~Threw(parsed[lastOp.doc])
  /\ lastOp.file # parsed[lastOp.doc].val

\* the requests that are answered from the cache as it is
ReadOnlyOps ==
  { "resolveDefinitions", "getHover", "getWorkspaceSymbols", "dumpDiagnostics",
    "findReferences", "prepareRename", "renameSymbol" }

\* C28: ensure is the only operation that parses or writes the cache:
\* resolveDefinitions, getHover, getWorkspaceSymbols, dumpDiagnostics,
\* findReferences, prepareRename and renameSymbol leave the cache unchanged in
\* every state, and getCompletions and runDiagnostics can change only the
\* entry of the URI they are called with.
C28_OnlyEnsureWrites ==
  [][/\ lastOp'.op \in ReadOnlyOps => docCache' = docCache
     /\ lastOp'.op \in EnsureOps =>
          \A key \in (cacheKeys(docCache) \cup cacheKeys(docCache'))
                      \ { normalized[lastOp'.doc.uri] } :
            mapGet(docCache', key) = mapGet(docCache, key)
    ]_vars

\* C28 witness: a request has parsed its document and stored the File while
\* the cache holds the File of another URI
C28_Witness ==
  /\ lastOp.op \in EnsureOps
  /\ lastOp.branch = "parsed"
  /\ Cardinality(cacheKeys(docCache)) = 2
  /\ mapGet(docCache, normalized[lastOp.doc.uri]) = <<lastOp.file>>
====
